---- MODULE Spec2Model ----
(***************************************************************************)
(* Model of the netblast orchestrator of hypr-bench: runNetblastTests in   *)
(* src/cmd/root.go.  The run locates the operator, fetches the server      *)
(* catalog, scores and selects candidates, fans out one goroutine per      *)
(* selected server, joins their results on a buffered channel, sorts and   *)
(* ranks them and stores them in sysInfo.NetblastResults.                  *)
(*                                                                         *)
(* Representation.  Strings the code parses (the launch command IP_HOST,   *)
(* OPTIONS, GB_S, the "lat,lon" string) are sequences of one-character     *)
(* strings, so that Split, TrimPrefix, Contains, Atoi and ParseFloat are   *)
(* computed as the Go library computes them.  Strings the code only        *)
(* compares or concatenates (country, site, provider) are TLA+ strings.    *)
(* float64 quantities the code computes (the operator position, parsed    *)
(* capacities, scores, the bandwidth estimate, measured throughput) are    *)
(* float64 values computed bit for bit as IEEE 754 binary64 computes them; *)
(* the coordinates of the static site table are literals and are held in   *)
(* 1/10000 degree.                                                         *)
(***************************************************************************)
EXTENDS Integers, Sequences, FiniteSets, TLC

VARIABLES
    pc,                  \* position of runNetblastTests (the main goroutine)
    err,                 \* its return value: "nil" or the reason of the error
    speedtestDownload,   \* sysInfo.SpeedtestResults.DownloadMbps, in Mbps
    selfLocation,        \* the parsed ipinfo.io answer
    selfLat, selfLon,    \* operator position, float64 degrees
    serversWithBandwidth,\* the scored candidate list, sorted by score
    estimatedUserBandwidth, \* the operator's bandwidth estimate, in Mbps
    highBandwidthServers,\* the candidate pool (strict or fallback tier)
    selectedServers,     \* the final selection, one task each
    resultChan,          \* buffered channel of NetblastResult
    closed,              \* resultChan has been closed
    wg,                  \* the WaitGroup counter
    tpc,                 \* position of each task goroutine
    result,              \* each task's local result struct
    calls,               \* each task's external iperf3 invocations so far
    sends,               \* number of sends each task made on resultChan
    results,             \* the collector's slice
    NetblastResults      \* sysInfo.NetblastResults

vars == <<pc, err, speedtestDownload, selfLocation, selfLat, selfLon,
          serversWithBandwidth, estimatedUserBandwidth, highBandwidthServers,
          selectedServers, resultChan, closed, wg,
          tpc, result, calls, sends, results, NetblastResults>>

(***************************************************************************)
(* Strings                                                                 *)
(***************************************************************************)
Digits == <<"0", "1", "2", "3", "4", "5", "6", "7", "8", "9">>

IsDigit(c) == \E i \in 1..10 : Digits[i] = c

DigitVal(c) == (CHOOSE i \in 1..10 : Digits[i] = c) - 1

\* strings.HasPrefix
HasPrefix(s, p) == Len(s) >= Len(p) /\ SubSeq(s, 1, Len(p)) = p

\* strings.TrimPrefix
TrimPrefix(s, p) == IF HasPrefix(s, p) THEN SubSeq(s, Len(p) + 1, Len(s)) ELSE s

\* strings.Contains
Contains(s, sub) ==
    \E i \in 1..(Len(s) - Len(sub) + 1) : SubSeq(s, i, i + Len(sub) - 1) = sub

\* strings.Split with a one-character separator: one more part than there
\* are separators, empty parts kept.
RECURSIVE Split(_, _)
Split(s, sep) ==
    IF \A i \in 1..Len(s) : s[i] # sep
    THEN <<s>>
    ELSE LET i == CHOOSE k \in 1..Len(s) :
                      s[k] = sep /\ \A j \in 1..(k - 1) : s[j] # sep
         IN  <<SubSeq(s, 1, i - 1)>> \o Split(SubSeq(s, i + 1, Len(s)), sep)

\* Value of a string of decimal digits.
RECURSIVE DigitsValue(_)
DigitsValue(s) ==
    IF Len(s) = 0 THEN 0
    ELSE 10 * DigitsValue(SubSeq(s, 1, Len(s) - 1)) + DigitVal(s[Len(s)])

AllDigits(s) == \A i \in 1..Len(s) : IsDigit(s[i])

HasSign(s) == Len(s) > 0 /\ s[1] \in {"+", "-"}

Unsigned(s) == IF HasSign(s) THEN Tail(s) ELSE s

(***************************************************************************)
(* Natural numbers of any size, for exact float64 arithmetic: sequences of *)
(* limbs below 32768 (2^15), least significant first, no high zero limb.   *)
(* A value that is used more than once is bound through a one-element set, *)
(* CHOOSE r \in {e(v) : v \in {value}} : TRUE, so that it is computed once *)
(* wherever the operator is evaluated.                                     *)
(***************************************************************************)
NatTrim(x) ==
    CHOOSE r \in
      { SubSeq(a, 1, CHOOSE n \in 0..Len(a) :
                         (n = 0 \/ a[n] # 0) /\ \A j \in (n + 1)..Len(a) : a[j] = 0) :
          a \in {x} } : TRUE

\* A natural number below 2^31.
NatFromInt(n) == NatTrim(<<n % 32768, (n \div 32768) % 32768, n \div 1073741824>>)

\* -1, 0 or 1 as x is below, equal to or above y.
NatCmp(x, y) ==
    CHOOSE r \in
      { IF Len(a) # Len(b) THEN (IF Len(a) < Len(b) THEN 0 - 1 ELSE 1)
        ELSE IF a = b THEN 0
        ELSE LET top == CHOOSE i \in 1..Len(a) :
                            a[i] # b[i] /\ \A j \in (i + 1)..Len(a) : a[j] = b[j]
             IN  IF a[top] < b[top] THEN 0 - 1 ELSE 1 :
          a \in {x}, b \in {y} } : TRUE

\* Limb i of a, zero above its length.
Limb(a, i) == IF i <= Len(a) THEN a[i] ELSE 0

\* The carry into limb i of a + b.
RECURSIVE NatAddCarry(_, _, _)
NatAddCarry(a, b, i) ==
    IF i = 1 THEN 0
    ELSE (Limb(a, i - 1) + Limb(b, i - 1) + NatAddCarry(a, b, i - 1)) \div 32768

NatAdd(x, y) ==
    CHOOSE r \in
      { NatTrim([i \in 1..((IF Len(a) > Len(b) THEN Len(a) ELSE Len(b)) + 1) |->
                    (Limb(a, i) + Limb(b, i) + NatAddCarry(a, b, i)) % 32768]) :
          a \in {x}, b \in {y} } : TRUE

\* The borrow from limb i of a - b.
RECURSIVE NatSubBorrow(_, _, _)
NatSubBorrow(a, b, i) ==
    IF i = 1 THEN 0
    ELSE IF Limb(a, i - 1) - Limb(b, i - 1) - NatSubBorrow(a, b, i - 1) < 0 THEN 1 ELSE 0

\* x - y for x >= y.
NatSub(x, y) ==
    CHOOSE r \in
      { NatTrim([i \in 1..Len(a) |->
                    (Limb(a, i) - Limb(b, i) - NatSubBorrow(a, b, i) + 32768) % 32768]) :
          a \in {x}, b \in {y} } : TRUE

\* The carry into limb i of a * k.
RECURSIVE NatMulCarry(_, _, _)
NatMulCarry(a, k, i) ==
    IF i = 1 THEN 0
    ELSE (Limb(a, i - 1) * k + NatMulCarry(a, k, i - 1)) \div 32768

\* x * n for 0 <= n < 32768.
NatMulSmall(x, n) ==
    CHOOSE r \in
      { NatTrim([i \in 1..(Len(a) + 1) |->
                    (Limb(a, i) * k + NatMulCarry(a, k, i)) % 32768]) :
          a \in {x}, k \in {n} } : TRUE

\* The remainder by k of the limbs of a from limb i up.
RECURSIVE NatModSmallFrom(_, _, _)
NatModSmallFrom(a, k, i) ==
    IF i > Len(a) THEN 0
    ELSE (NatModSmallFrom(a, k, i + 1) * 32768 + a[i]) % k

\* Quotient and remainder of x by n, 0 < n < 32768.
NatDivSmall(x, n) ==
    CHOOSE r \in
      { [q |-> NatTrim([i \in 1..Len(a) |->
                           (NatModSmallFrom(a, k, i + 1) * 32768 + a[i]) \div k]),
         r |-> NatModSmallFrom(a, k, 1)] :
          a \in {x}, k \in {n} } : TRUE

NatShiftLimbs(x, n) ==
    CHOOSE r \in {IF a = <<>> THEN <<>> ELSE [i \in 1..n |-> 0] \o a : a \in {x}} : TRUE

\* a * b for b # <<>>, by halves of b.
RECURSIVE NatMulBound(_, _)
NatMulBound(a, b) ==
    IF Len(b) = 1 THEN NatMulSmall(a, b[1])
    ELSE NatAdd(NatMulBound(a, SubSeq(b, 1, Len(b) \div 2)),
                NatShiftLimbs(NatMulBound(a, SubSeq(b, Len(b) \div 2 + 1, Len(b))),
                              Len(b) \div 2))

NatMul(x, y) ==
    CHOOSE r \in
      { IF a = <<>> \/ b = <<>> THEN <<>> ELSE NatMulBound(a, b) :
          a \in {x}, b \in {y} } : TRUE

\* 2^n for 0 <= n <= 15
Pow2(n) ==
    <<1, 2, 4, 8, 16, 32, 64, 128, 256, 512, 1024, 2048, 4096, 8192, 16384,
      32768>>[n + 1]

\* x * 2^n
NatShl(x, n) == NatShiftLimbs(NatMulSmall(x, Pow2(n % 15)), n \div 15)

\* x \div 2^n, and whether a nonzero bit was shifted out.
NatShr(x, n) ==
    CHOOSE r \in
      { LET limbs == IF n \div 15 < Len(a) THEN n \div 15 ELSE Len(a)
            d     == NatDivSmall(SubSeq(a, limbs + 1, Len(a)), Pow2(n % 15))
        IN  [q |-> d.q, sticky |-> d.r # 0 \/ \E i \in 1..limbs : a[i] # 0] :
          a \in {x} } : TRUE

\* The number of bits of 0 <= x < 32768.
BitLenSmall(x) == CHOOSE k \in 0..15 : x < Pow2(k) /\ (k = 0 \/ Pow2(k - 1) <= x)

NatBitLen(x) ==
    CHOOSE r \in
      { IF a = <<>> THEN 0 ELSE 15 * (Len(a) - 1) + BitLenSmall(a[Len(a)]) :
          a \in {x} } : TRUE

NatOdd(a) == Limb(a, 1) % 2 = 1

\* The number of low zero bits of x > 0.
NatTrailingZeros(x) ==
    CHOOSE r \in
      { LET low == CHOOSE i \in 1..Len(a) : a[i] # 0 /\ \A j \in 1..(i - 1) : a[j] = 0
        IN  15 * (low - 1)
            + (CHOOSE k \in 0..14 : a[low] % Pow2(k) = 0 /\ a[low] % Pow2(k + 1) # 0) :
          a \in {x} } : TRUE

\* The largest digit d, built from the given bit down, with d * b <= rem.
RECURSIVE QuotientDigit(_, _, _, _)
QuotientDigit(rem, b, bit, d) ==
    CHOOSE r \in
      { IF bit = 0 THEN next ELSE QuotientDigit(rem, b, bit - 1, next) :
          next \in {IF NatCmp(NatMulSmall(b, d + Pow2(bit)), rem) <= 0
                    THEN d + Pow2(bit) ELSE d} } : TRUE

\* One step of long division: the quotient digit and remainder of cur by b,
\* for cur < 32768 * b.
NatDivStep(cur, b) ==
    CHOOSE r \in
      { [d |-> d, r |-> NatSub(cur, NatMulSmall(b, d))] :
          d \in {QuotientDigit(cur, b, 14, 0)} } : TRUE

\* The quotient and remainder so far, extended by one lower limb.
NatDivLongStep(up, limb, b) ==
    CHOOSE r \in
      { [q |-> <<step.d>> \o up.q, r |-> step.r] :
          step \in {NatDivStep(NatTrim(<<limb>> \o up.r), b)} } : TRUE

\* Long division of the limbs of a from limb i up; the highest Len(b) - 1
\* limbs are below b and start as the remainder.
RECURSIVE NatDivLongFrom(_, _, _)
NatDivLongFrom(a, b, i) ==
    IF i > Len(a) - Len(b) + 1
    THEN [q |-> <<>>, r |-> NatTrim(SubSeq(a, i, Len(a)))]
    ELSE CHOOSE r \in
           {NatDivLongStep(up, a[i], b) : up \in {NatDivLongFrom(a, b, i + 1)}} : TRUE

\* Quotient and remainder of a by b > 0, both bound.
NatDivModBound(a, b) ==
    CHOOSE r \in
      { [q |-> NatTrim(d.q), r |-> d.r] :
          d \in {IF Len(b) = 1
                 THEN [q |-> NatDivSmall(a, b[1]).q, r |-> NatFromInt(NatDivSmall(a, b[1]).r)]
                 ELSE NatDivLongFrom(a, b, 1)} } : TRUE

\* Quotient and remainder of x by y > 0.
NatDivMod(x, y) == CHOOSE r \in {NatDivModBound(a, b) : a \in {x}, b \in {y}} : TRUE

(***************************************************************************)
(* float64.  A value is a record: k is "num", "inf" or "nan"; neg is the   *)
(* sign; a "num" is m * 2^e with m = <<>> and e = 0 for zero, m of 53 bits *)
(* and -1074 <= e <= 971 for a normal number, m of fewer bits and          *)
(* e = -1074 for a subnormal one.  Every operation rounds to nearest, ties *)
(* to even, as IEEE 754 binary64 does.                                     *)
(***************************************************************************)
F64Zero(neg) == [k |-> "num", neg |-> neg, m |-> <<>>, e |-> 0]

F64Inf(neg) == [k |-> "inf", neg |-> neg, m |-> <<>>, e |-> 0]

F64NaN == [k |-> "nan", neg |-> FALSE, m |-> <<>>, e |-> 0]

F64IsZero(x) == x.k = "num" /\ x.m = <<>>

\* The mantissa q with its exponent, after the carry of a round-up.
F64Pack(neg, q, e) ==
    IF q = <<>> THEN F64Zero(neg)
    ELSE IF NatBitLen(q) = 54
    THEN (IF e + 1 > 971 THEN F64Inf(neg)
          ELSE [k |-> "num", neg |-> neg, m |-> NatDivSmall(q, 2).q, e |-> e + 1])
    ELSE IF e > 971 THEN F64Inf(neg)
    ELSE [k |-> "num", neg |-> neg, m |-> q, e |-> e]

\* n * 2^e without its lowest drop bits, rounded to nearest, ties to even;
\* above is n without drop - 1 bits.
F64RoundUp(neg, above, e, sticky) ==
    CHOOSE r \in
      { F64Pack(neg,
                IF NatOdd(above.q) /\ (above.sticky \/ sticky \/ NatOdd(q))
                THEN NatAdd(q, <<1>>) ELSE q,
                e) :
          q \in {NatDivSmall(above.q, 2).q} } : TRUE

\* The float64 nearest to n * 2^e for n > 0 of len bits.
F64RoundBits(neg, n, len, e, sticky) ==
    LET drop == IF e + len - 53 < 0 - 1074 THEN 0 - 1074 - e ELSE len - 53
    IN  IF drop <= 0
        THEN IF e + drop > 971 THEN F64Inf(neg)
             ELSE [k |-> "num", neg |-> neg, m |-> NatShl(n, 0 - drop), e |-> e + drop]
        ELSE CHOOSE r \in
               { F64RoundUp(neg, above, e + drop, sticky) :
                   above \in {NatShr(n, drop - 1)} } : TRUE

\* The float64 nearest to (x + f) * 2^e, where 0 <= f < 1 and f > 0 exactly
\* when sticky; with sticky the caller passes x of 64 bits or more.
F64Round(neg, x, e, sticky) ==
    CHOOSE r \in
      { IF n = <<>> THEN F64Zero(neg)
        ELSE F64RoundBits(neg, n, NatBitLen(n), e, sticky) :
          n \in {x} } : TRUE

\* float64(n) of an integer.
F64FromInt(n) == F64Round(n < 0, NatFromInt(IF n < 0 THEN 0 - n ELSE n), 0, FALSE)

F64Neg(x) == IF x.k = "nan" THEN x ELSE [x EXCEPT !.neg = ~x.neg]

\* -1, 0 or 1 as |x| is below, equal to or above |y|; neither is a NaN.
F64CmpAbs(x, y) ==
    IF x.k = "inf" \/ y.k = "inf"
    THEN (IF x.k = y.k THEN 0 ELSE IF x.k = "inf" THEN 1 ELSE 0 - 1)
    ELSE IF x.m = <<>> \/ y.m = <<>>
    THEN (IF x.m = y.m THEN 0 ELSE IF x.m = <<>> THEN 0 - 1 ELSE 1)
    ELSE IF x.e # y.e THEN (IF x.e < y.e THEN 0 - 1 ELSE 1)
    ELSE NatCmp(x.m, y.m)

\* a < b
F64Less(a, b) ==
    CHOOSE r \in
      { IF x.k = "nan" \/ y.k = "nan" THEN FALSE
        ELSE IF F64IsZero(x) /\ F64IsZero(y) THEN FALSE
        ELSE IF x.neg # y.neg THEN x.neg
        ELSE IF x.neg THEN F64CmpAbs(x, y) > 0
        ELSE F64CmpAbs(x, y) < 0 :
          x \in {a}, y \in {b} } : TRUE

\* a == b
F64Eq(a, b) ==
    CHOOSE r \in
      { IF x.k = "nan" \/ y.k = "nan" THEN FALSE
        ELSE IF F64IsZero(x) /\ F64IsZero(y) THEN TRUE
        ELSE x.neg = y.neg /\ F64CmpAbs(x, y) = 0 :
          x \in {a}, y \in {b} } : TRUE

\* a <= b
F64LessEq(a, b) == F64Less(a, b) \/ F64Eq(a, b)

\* x > 0: a number or an infinity above zero.
Positive(x) == x.k # "nan" /\ ~x.neg /\ ~F64IsZero(x)

\* The float64 nearest to nx * 2^e + ny * 2^e, each with its sign; neither
\* is zero.
F64SumAligned(xneg, nx, yneg, ny, e) ==
    IF xneg = yneg THEN F64Round(xneg, NatAdd(nx, ny), e, FALSE)
    ELSE IF NatCmp(nx, ny) = 0 THEN F64Zero(FALSE)
    ELSE IF NatCmp(nx, ny) > 0 THEN F64Round(xneg, NatSub(nx, ny), e, FALSE)
    ELSE F64Round(yneg, NatSub(ny, nx), e, FALSE)

\* The float64 nearest to the sum of x.n * 2^x.e and y.n * 2^y.e, each with
\* its sign; neither n is zero.
F64SumRounded(x, y) ==
    CHOOSE r \in
      { F64SumAligned(x.neg, nx, y.neg, ny, IF x.e < y.e THEN x.e ELSE y.e) :
          nx \in {NatShl(x.n, x.e - (IF x.e < y.e THEN x.e ELSE y.e))},
          ny \in {NatShl(y.n, y.e - (IF x.e < y.e THEN x.e ELSE y.e))} } : TRUE

\* a + b
F64Add(a, b) ==
    CHOOSE r \in
      { IF x.k = "nan" \/ y.k = "nan" THEN F64NaN
        ELSE IF x.k = "inf"
        THEN (IF y.k = "inf" /\ x.neg # y.neg THEN F64NaN ELSE x)
        ELSE IF y.k = "inf" THEN y
        ELSE IF x.m = <<>> /\ y.m = <<>> THEN F64Zero(x.neg /\ y.neg)
        ELSE IF x.m = <<>> THEN y
        ELSE IF y.m = <<>> THEN x
        ELSE F64SumRounded([neg |-> x.neg, n |-> x.m, e |-> x.e],
                           [neg |-> y.neg, n |-> y.m, e |-> y.e]) :
          x \in {a}, y \in {b} } : TRUE

\* a - b
F64Sub(a, b) == F64Add(a, F64Neg(b))

\* a * b
F64Mul(a, b) ==
    CHOOSE r \in
      { IF x.k = "nan" \/ y.k = "nan" THEN F64NaN
        ELSE IF x.k = "inf" \/ y.k = "inf"
        THEN (IF F64IsZero(x) \/ F64IsZero(y) THEN F64NaN ELSE F64Inf(x.neg # y.neg))
        ELSE F64Round(x.neg # y.neg, NatMul(x.m, y.m), x.e + y.e, FALSE) :
          x \in {a}, y \in {b} } : TRUE

\* The float64 nearest to n * 2^e / (d * 2^tz) for an odd d: n is shifted
\* by s bits so that the quotient has 64 bits or more.
F64QuotientShifted(neg, n, e, d, tz, s) ==
    CHOOSE r \in
      { F64Round(neg, qr.q, e - tz - s, qr.r # <<>>) :
          qr \in {NatDivMod(NatShl(n, s), d)} } : TRUE

F64Quotient(neg, n, e, d, tz) ==
    F64QuotientShifted(neg, n, e, d, tz, 65 + NatBitLen(d) - NatBitLen(n))

\* a / b
F64Div(a, b) ==
    CHOOSE r \in
      { IF x.k = "nan" \/ y.k = "nan" THEN F64NaN
        ELSE IF x.k = "inf"
        THEN (IF y.k = "inf" THEN F64NaN ELSE F64Inf(x.neg # y.neg))
        ELSE IF y.k = "inf" THEN F64Zero(x.neg # y.neg)
        ELSE IF y.m = <<>>
        THEN (IF x.m = <<>> THEN F64NaN ELSE F64Inf(x.neg # y.neg))
        ELSE IF x.m = <<>> THEN F64Zero(x.neg # y.neg)
        ELSE CHOOSE q \in
               { F64Quotient(x.neg # y.neg, x.m, x.e - y.e, NatShr(y.m, tz).q, tz) :
                   tz \in {NatTrailingZeros(y.m)} } : TRUE :
          x \in {a}, y \in {b} } : TRUE

\* a*b + c rounded once (a fused multiply-add).
F64FMA(a, b, c) ==
    CHOOSE r \in
      { IF x.k # "num" \/ y.k # "num" \/ z.k # "num"
           \/ x.m = <<>> \/ y.m = <<>> \/ z.m = <<>>
        THEN F64Add(F64Mul(x, y), z)
        ELSE F64SumRounded([neg |-> x.neg # y.neg, n |-> NatMul(x.m, y.m), e |-> x.e + y.e],
                           [neg |-> z.neg, n |-> z.m, e |-> z.e]) :
          x \in {a}, y \in {b}, z \in {c} } : TRUE

(***************************************************************************)
(* strconv.ParseFloat(s, 64) and strconv.Atoi(s)                           *)
(***************************************************************************)
Uppers == <<"A", "B", "C", "D", "E", "F", "G", "H", "I", "J", "K", "L", "M",
            "N", "O", "P", "Q", "R", "S", "T", "U", "V", "W", "X", "Y", "Z">>

Lowers == <<"a", "b", "c", "d", "e", "f", "g", "h", "i", "j", "k", "l", "m",
            "n", "o", "p", "q", "r", "s", "t", "u", "v", "w", "x", "y", "z">>

Lower(c) ==
    IF \E i \in 1..26 : Uppers[i] = c
    THEN Lowers[CHOOSE i \in 1..26 : Uppers[i] = c]
    ELSE c

LowerAll(s) == [i \in 1..Len(s) |-> Lower(s[i])]

IsHexLetter(c) == Lower(c) \in {"a", "b", "c", "d", "e", "f"}

HexVal(c) ==
    IF IsDigit(c) THEN DigitVal(c)
    ELSE 9 + (CHOOSE i \in 1..6 : Lowers[i] = Lower(c))

\* base^k
RECURSIVE NatPow(_, _)
NatPow(base, k) ==
    IF k = 0 THEN <<1>>
    ELSE CHOOSE r \in
           { IF k % 2 = 1 THEN NatMulSmall(NatMul(half, half), base)
             ELSE NatMul(half, half) :
               half \in {NatPow(base, k \div 2)} } : TRUE

\* The digits of a number in the given base, most significant first, as a
\* natural number.
RECURSIVE NatFromDigits(_, _)
NatFromDigits(digits, base) ==
    CHOOSE r \in
      { IF Len(s) = 0 THEN <<>>
        ELSE IF Len(s) = 1 THEN NatFromInt(HexVal(s[1]))
        ELSE NatAdd(NatMul(NatFromDigits(SubSeq(s, 1, Len(s) \div 2), base),
                           NatPow(base, Len(s) - Len(s) \div 2)),
                    NatFromDigits(SubSeq(s, Len(s) \div 2 + 1, Len(s)), base)) :
          s \in {digits} } : TRUE

\* The "inf", "infinity" and "nan" spellings, in any case; the infinities
\* take a sign.
Special(s) ==
    IF LowerAll(Unsigned(s)) \in {<<"i", "n", "f">>,
                                  <<"i", "n", "f", "i", "n", "i", "t", "y">>}
    THEN <<F64Inf(s[1] = "-")>>
    ELSE IF LowerAll(s) = <<"n", "a", "n">> THEN <<F64NaN>>
    ELSE <<>>

\* Whether readFloat's digit loop, started at from, consumes position j: a
\* digit (a hexadecimal one after "0x"), an underscore or the first point.
MantissaChar(s, j, from, hex) ==
    \/ IsDigit(s[j]) \/ s[j] = "_" \/ (hex /\ IsHexLetter(s[j]))
    \/ s[j] = "." /\ \A m \in from..(j - 1) : s[m] # "."

\* The first position the digit loop does not consume.
MantissaEnd(s, from, hex) ==
    CHOOSE j \in from..(Len(s) + 1) :
        /\ j = Len(s) + 1 \/ ~MantissaChar(s, j, from, hex)
        /\ \A m \in from..(j - 1) : MantissaChar(s, m, from, hex)

\* The first position from i on that holds neither a digit nor an underscore.
RECURSIVE ExponentEnd(_, _)
ExponentEnd(s, i) ==
    IF i <= Len(s) /\ (IsDigit(s[i]) \/ s[i] = "_") THEN ExponentEnd(s, i + 1) ELSE i

\* The exponent's value: digits are taken while the value is below 10000.
RECURSIVE ExponentValue(_, _, _)
ExponentValue(s, i, e) ==
    IF i > Len(s) \/ ~(IsDigit(s[i]) \/ s[i] = "_") THEN e
    ELSE IF s[i] = "_" \/ e >= 10000 THEN ExponentValue(s, i + 1, e)
    ELSE ExponentValue(s, i + 1, e * 10 + DigitVal(s[i]))

\* The characters of s outside skip.
SelectChars(s, skip) ==
    LET Keep(c) == c \notin skip
    IN  SelectSeq(s, Keep)

\* underscoreOK: an underscore stands between two digits, or right after
\* the base prefix and before a digit.
UnderscoreOK(s) ==
    LET body     == Unsigned(s)
        prefix   == Len(body) >= 2 /\ body[1] = "0"
                    /\ Lower(body[2]) \in {"b", "o", "x"}
        hex      == prefix /\ Lower(body[2]) = "x"
        start    == IF prefix THEN 3 ELSE 1
        Digit(i) == IsDigit(body[i]) \/ (hex /\ IsHexLetter(body[i]))
    IN  \A i \in start..Len(body) :
            body[i] = "_" =>
                /\ IF i = start THEN prefix ELSE Digit(i - 1)
                /\ i < Len(body) /\ Digit(i + 1)

\* Whether the unsigned string starts with "0x" and goes on.
HexPrefix(body) == Len(body) >= 3 /\ body[1] = "0" /\ Lower(body[2]) = "x"

\* Whether an exponent mark ("p" after "0x", "e" otherwise) follows the
\* mantissa, and whether a sign follows the mark.
HasExponent(body, mantEnd, hex) ==
    mantEnd <= Len(body) /\ Lower(body[mantEnd]) = (IF hex THEN "p" ELSE "e")

SignedExponent(body, mantEnd, hex) ==
    /\ HasExponent(body, mantEnd, hex)
    /\ mantEnd + 1 <= Len(body)
    /\ body[mantEnd + 1] \in {"+", "-"}

\* What readFloat returns once the mantissa is known to end before mantEnd
\* and the exponent's digits to start at expFrom.
ReadParts(s, body, hex, mantEnd, expFrom) ==
    CHOOSE read \in
      { [ok     |-> /\ Len(digits) > 0
                    /\ IF HasExponent(body, mantEnd, hex)
                       THEN /\ expFrom <= Len(body)
                            /\ IsDigit(body[expFrom])
                            /\ ExponentEnd(body, expFrom) > Len(body)
                       ELSE ~hex /\ mantEnd > Len(body)
                    /\ UnderscoreOK(s),
         neg    |-> Len(s) > 0 /\ s[1] = "-",
         hex    |-> hex,
         digits |-> digits,
         point  |-> Len(SelectChars(Split(mant, ".")[1], {"_"})),
         exp    |-> IF ~HasExponent(body, mantEnd, hex) THEN 0
                    ELSE IF body[expFrom - 1] = "-"
                    THEN 0 - ExponentValue(body, expFrom, 0)
                    ELSE ExponentValue(body, expFrom, 0)] :
            mant   \in {SubSeq(body, IF hex THEN 3 ELSE 1, mantEnd - 1)},
            digits \in {SelectChars(SubSeq(body, IF hex THEN 3 ELSE 1, mantEnd - 1),
                                    {"_", "."})} } : TRUE

\* readFloat on the whole string: ok when it is a decimal or hexadecimal
\* floating-point number; digits holds the mantissa's digits, point the
\* number of them before the point, exp the signed exponent.
ReadFloat(s) ==
    CHOOSE read \in
      { CHOOSE parts \in
          { ReadParts(s, body, hex, mantEnd,
                      IF SignedExponent(body, mantEnd, hex)
                      THEN mantEnd + 2 ELSE mantEnd + 1) :
                mantEnd \in {MantissaEnd(body, IF hex THEN 3 ELSE 1, hex)} } : TRUE :
            body \in {Unsigned(s)},
            hex  \in {HexPrefix(Unsigned(s))} } : TRUE

\* The number of digits from the first nonzero one on.
SignificantDigits(s) ==
    Len(s) - (CHOOSE n \in 0..Len(s) :
                  (\A j \in 1..n : s[j] = "0") /\ (n = Len(s) \/ s[n + 1] # "0"))

\* The float64 nearest to n * 10^x for n > 0: n * 10^x is n * 5^x * 2^x, and
\* for x < 0 the quotient by 5^-x keeps 64 bits or more.
F64Scale10(neg, n, x) ==
    IF x >= 0 THEN F64Round(neg, NatMul(n, NatPow(10, x)), 0, FALSE)
    ELSE CHOOSE r \in
           { F64Round(neg, d.q, x - (64 + 3 * (0 - x)), d.r # <<>>) :
               d \in {NatDivMod(NatShl(n, 64 + 3 * (0 - x)), NatPow(5, 0 - x))} } : TRUE

\* The float64 nearest to digits * 10^x.
F64FromDecimal(neg, digits, x) ==
    IF SignificantDigits(digits) = 0 THEN F64Zero(neg)
    ELSE IF SignificantDigits(digits) + x > 310 THEN F64Inf(neg)
    ELSE IF SignificantDigits(digits) + x < 0 - 330 THEN F64Zero(neg)
    ELSE CHOOSE r \in {F64Scale10(neg, n, x) : n \in {NatFromDigits(digits, 10)}} : TRUE

\* The value of what readFloat read.
F64FromRead(read) ==
    IF read.hex
    THEN F64Round(read.neg, NatFromDigits(read.digits, 16),
                  4 * (read.point - Len(read.digits)) + read.exp, FALSE)
    ELSE F64FromDecimal(read.neg, read.digits,
                        read.point - Len(read.digits) + read.exp)

\* strconv.ParseFloat(s, 64): the nearest float64; a number too large gives
\* an infinity with err set, anything that is not a number gives 0 with err
\* set.
ParseFloat(str) ==
    CHOOSE r \in
      { IF Special(s) # <<>> THEN [err |-> FALSE, val |-> Special(s)[1]]
        ELSE CHOOSE out \in
               { IF ~read.ok THEN [err |-> TRUE, val |-> F64Zero(FALSE)]
                 ELSE CHOOSE res \in
                        { [err |-> val.k = "inf", val |-> val] :
                            val \in {F64FromRead(read)} } : TRUE :
                   read \in {ReadFloat(s)} } : TRUE :
          s \in {str} } : TRUE

\* strconv.Atoi with a 64-bit int: an optional sign and decimal digits; a
\* value outside [-2^63, 2^63 - 1] is a range error.  The caller reads val
\* only when err is not set, and val is 0 here whenever it is.
Atoi(str) ==
    CHOOSE r \in
      { IF Len(Unsigned(s)) = 0 \/ ~AllDigits(Unsigned(s))
        THEN [err |-> TRUE, val |-> 0]
        ELSE IF NatCmp(NatFromDigits(Unsigned(s), 10), NatShl(<<1>>, 63))
                >= (IF s[1] = "-" THEN 1 ELSE 0)
        THEN [err |-> TRUE, val |-> 0]
        ELSE [err |-> FALSE,
              val |-> IF s[1] = "-" THEN 0 - DigitsValue(Unsigned(s))
                      ELSE DigitsValue(Unsigned(s))] :
          s \in {str} } : TRUE

(***************************************************************************)
(* Catalog processing: host, port, coordinates, distance                   *)
(***************************************************************************)
DefaultPort == 5201

\* The port of a launch command already split at spaces: the value after the
\* first "-p" that is followed by another token; a range gives its first
\* value; anything unparsable leaves the default.
PortOption(parts) ==
    LET idx == {k \in 2..(Len(parts) - 1) : parts[k] = <<"-", "p">>}
    IN  IF idx = {} THEN <<>>
        ELSE <<parts[(CHOOSE k \in idx : \A j \in idx : k <= j) + 1]>>

ParsePort(parts) ==
    CHOOSE port \in
      { IF opt = <<>> THEN DefaultPort
        ELSE CHOOSE given \in
               { IF parsed.err THEN DefaultPort ELSE parsed.val :
                   parsed \in {Atoi(IF Contains(opt[1], <<"-">>)
                                    THEN Split(opt[1], "-")[1]
                                    ELSE opt[1])} } : TRUE :
            opt \in {PortOption(parts)} } : TRUE

CommandPrefix == <<"i", "p", "e", "r", "f", "3", " ", "-", "c", " ">>

HostAndPortParts(ipHost) == Split(TrimPrefix(ipHost, CommandPrefix), " ")

\* ResolveCoordinates without the centroids: a site the table does not list
\* is placed at the first listed site of its country.
ResolveCoordinatesFirstSite(country, site) ==
    CASE country = "US" -> <<407128, -740060>>
      [] country \in {"UK", "GB"} -> <<515074, -1278>>
      [] country = "FR" -> <<488566, 23522>>
      [] country = "DE" -> <<501109, 86821>>
      [] country = "NL" -> <<523676, 49041>>
      [] country = "SG" -> <<13521, 1038198>>
      [] country = "JP" -> <<356762, 1396503>>
      [] country = "AU" -> <<-338688, 1512093>>
      [] OTHER -> <<>>

\* The static country/site table; <<>> when the country is unknown.
ResolveCoordinates(country, site) ==
    CASE country = "US" ->
           ( CASE site = "New York"      -> <<407128, -740060>>
               [] site = "Los Angeles"   -> <<340522, -1182437>>
               [] site = "Miami"         -> <<257617, -801918>>
               [] site = "Chicago"       -> <<418781, -876298>>
               [] site = "Dallas"        -> <<327767, -967970>>
               [] site = "San Francisco" -> <<377749, -1224194>>
               [] site = "Seattle"       -> <<476062, -1223321>>
               [] site = "Houston"       -> <<297604, -953698>>
               [] OTHER                  -> <<370902, -957129>> )
      [] country \in {"UK", "GB"} ->
           ( CASE site = "London" -> <<515074, -1278>>
               [] OTHER           -> <<553781, -34360>> )
      [] country = "FR" ->
           ( CASE site = "Paris" -> <<488566, 23522>>
               [] OTHER          -> <<462276, 22137>> )
      [] country = "DE" ->
           ( CASE site = "Frankfurt" -> <<501109, 86821>>
               [] site = "Berlin"    -> <<525200, 134050>>
               [] OTHER              -> <<511657, 104515>> )
      [] country = "NL" -> <<523676, 49041>>
      [] country = "SG" -> <<13521, 1038198>>
      [] country = "JP" -> <<356762, 1396503>>
      [] country = "AU" ->
           ( CASE site = "Sydney" -> <<-338688, 1512093>>
               [] OTHER           -> <<-252744, 1337751>> )
      [] OTHER -> <<>>

\* float64(40) and float64(-75)
Forty == F64FromInt(40)

MinusSeventyFive == F64FromInt(0 - 75)

\* The operator positions of this model: "0,0" (the position when the
\* "lat,lon" string gave none), "40,-75", and anything else.
Position(lat, lon) ==
    IF F64IsZero(lat) /\ F64IsZero(lon) THEN "0,0"
    ELSE IF F64Eq(lat, Forty) /\ F64Eq(lon, MinusSeventyFive) THEN "40,-75"
    ELSE "elsewhere"

\* earthRadius * c of the Haversine formula, in metres (fraction dropped),
\* tabulated for the operator positions and the table sites of this model
\* from the float64 computation of calculateDistance; lat1, lon1 are
\* float64, lat2, lon2 a site of the table in 1/10000 degree.
HaversineTable(p) ==
        CASE p = <<"0,0", 407128, -740060>> -> 8667068
          [] p = <<"0,0", 340522, -1182437>> -> 12574353
          [] p = <<"0,0", 257617, -801918>> -> 9026233
          [] p = <<"0,0", 418781, -876298>> -> 9811334
          [] p = <<"0,0", 327767, -967970>> -> 10642564
          [] p = <<"0,0", 377749, -1224194>> -> 12795416
          [] p = <<"0,0", 476062, -1223321>> -> 12357818
          [] p = <<"0,0", 297604, -953698>> -> 10525698
          [] p = <<"0,0", 370902, -957129>> -> 10513964
          [] p = <<"0,0", 515074, -1278>> -> 5727374
          [] p = <<"0,0", 553781, -34360>> -> 6165667
          [] p = <<"0,0", 488566, 23522>> -> 5437294
          [] p = <<"0,0", 462276, 22137>> -> 5144828
          [] p = <<"0,0", 501109, 86821>> -> 5632854
          [] p = <<"0,0", 525200, 134050>> -> 5972009
          [] p = <<"0,0", 511657, 104515>> -> 5774007
          [] p = <<"0,0", 523676, 49041>> -> 5840974
          [] p = <<"0,0", 13521, 1038198>> -> 11543798
          [] p = <<"0,0", 356762, 1396503>> -> 14260629
          [] p = <<"0,0", -338688, 1512093>> -> 15199450
          [] p = <<"0,0", -252744, 1337751>> -> 14313728
          [] p = <<"40,-75", 407128, -740060>> -> 115653
          [] p = <<"40,-75", 340522, -1182437>> -> 3857115
          [] p = <<"40,-75", 257617, -801918>> -> 1654954
          [] p = <<"40,-75", 418781, -876298>> -> 1080171
          [] p = <<"40,-75", 327767, -967970>> -> 2102961
          [] p = <<"40,-75", 377749, -1224194>> -> 4063038
          [] p = <<"40,-75", 476062, -1223321>> -> 3829056
          [] p = <<"40,-75", 297604, -953698>> -> 2171248
          [] p = <<"40,-75", 370902, -957129>> -> 1825846
          [] p = <<"40,-75", 515074, -1278>> -> 5685576
          [] p = <<"40,-75", 553781, -34360>> -> 5358991
          [] p = <<"40,-75", 488566, 23522>> -> 5952128
          [] p = <<"40,-75", 462276, 22137>> -> 6054369
          [] p = <<"40,-75", 501109, 86821>> -> 6318149
          [] p = <<"40,-75", 525200, 134050>> -> 6500642
          [] p = <<"40,-75", 511657, 104515>> -> 6382353
          [] p = <<"40,-75", 523676, 49041>> -> 5978814
          [] p = <<"40,-75", 13521, 1038198>> -> 15415376
          [] p = <<"40,-75", 356762, 1396503>> -> 10883335
          [] p = <<"40,-75", -338688, 1512093>> -> 15898279
          [] p = <<"40,-75", -252744, 1337751>> -> 16883595

HaversineMeters(lat1, lon1, lat2, lon2) ==
    CHOOSE meters \in
      { HaversineTable(p) : p \in {<<Position(lat1, lon1), lat2, lon2>>} } : TRUE

\* calculateDistance: the conversion int(distance) drops the fraction.
calculateDistance(lat1, lon1, lat2, lon2) ==
    HaversineMeters(lat1, lon1, lat2, lon2) \div 1000

\* ProcessServer placing a country without coordinates at the centre of the
\* United States instead of passing over the entry.
ProcessServerKeepsUnknown(server, lat0, lon0) ==
    LET parts == HostAndPortParts(server.IP_HOST)
        found == ResolveCoordinates(server.COUNTRY, server.SITE)
        coord == IF found = <<>> THEN <<370902, -957129>> ELSE found
    IN  << [Host      |-> parts[1],
            Port      |-> ParsePort(parts),
            City      |-> server.SITE,
            Country   |-> server.COUNTRY,
            Distance  |-> calculateDistance(lat0, lon0, coord[1], coord[2]),
            Lat       |-> coord[1],
            Lon       |-> coord[2],
            Command   |-> server.IP_HOST,
            Options   |-> server.OPTIONS,
            Bandwidth |-> server.GB_S,
            Provider  |-> server.PROVIDER] >>

\* One catalog entry turned into a serversWithDistance element; <<>> when
\* the country has no coordinates (the loop's continue).
ProcessServer(server, lat0, lon0) ==
    CHOOSE located \in
      { IF coord = <<>> THEN <<>>
        ELSE << [Host      |-> parts[1],
                 Port      |-> ParsePort(parts),
                 City      |-> server.SITE,
                 Country   |-> server.COUNTRY,
                 Distance  |-> calculateDistance(lat0, lon0, coord[1], coord[2]),
                 Lat       |-> coord[1],
                 Lon       |-> coord[2],
                 Command   |-> server.IP_HOST,
                 Options   |-> server.OPTIONS,
                 Bandwidth |-> server.GB_S,
                 Provider  |-> server.PROVIDER] >> :
            parts \in {HostAndPortParts(server.IP_HOST)},
            coord \in {ResolveCoordinates(server.COUNTRY, server.SITE)} } : TRUE

RECURSIVE ProcessServers(_, _, _)
ProcessServers(feed, lat0, lon0) ==
    IF Len(feed) = 0 THEN <<>>
    ELSE ProcessServer(Head(feed), lat0, lon0) \o ProcessServers(Tail(feed), lat0, lon0)

(***************************************************************************)
(* sort.Slice.  The less functions of the code are named by the field they *)
(* compare.  sort.Slice(x, less) runs pdqsort_func over the indexes        *)
(* 0..len(x)-1 with limit bits.Len(len(x)): an insertion sort on at most   *)
(* 12 elements, otherwise a pattern-defeating quicksort, which does not    *)
(* keep the order of elements that compare equal.  The operators below     *)
(* follow the library's functions step by step; indexes are the library's, *)
(* counted from 0, and element i of the slice is d[i + 1].                 *)
(***************************************************************************)
Less(order, x, y) ==
    CASE order = "Distance"              -> x.Distance < y.Distance
      [] order = "Score"                 -> F64Less(y.Score, x.Score)
      [] order = "DownloadMbps"          -> F64Less(y.DownloadMbps, x.DownloadMbps)
      [] order = "DownloadMbpsAscending" -> F64Less(x.DownloadMbps, y.DownloadMbps)

\* data.Less(i, j)
LessAt(d, order, i, j) == Less(order, d[i + 1], d[j + 1])

\* data.Swap(i, j)
Swap(d, i, j) == [d EXCEPT ![i + 1] = d[j + 1], ![j + 1] = d[i + 1]]

\* for j := i; j > a && data.Less(j, j-1); j-- { data.Swap(j, j-1) }
RECURSIVE InsertFromRight(_, _, _, _)
InsertFromRight(d, a, j, order) ==
    IF j > a /\ LessAt(d, order, j, j - 1)
    THEN InsertFromRight(Swap(d, j, j - 1), a, j - 1, order)
    ELSE d

\* insertionSort_func(data, a, b), from element i on.
RECURSIVE InsertionSortFrom(_, _, _, _, _)
InsertionSortFrom(d, a, b, i, order) ==
    IF i < b
    THEN CHOOSE r \in
           { InsertionSortFrom(x, a, b, i + 1, order) :
               x \in {InsertFromRight(d, a, i, order)} } : TRUE
    ELSE d

InsertionSort(d, a, b, order) == InsertionSortFrom(d, a, b, a + 1, order)

\* siftDown_func(data, lo, hi, first), with root in the place of lo.
RECURSIVE SiftDown(_, _, _, _, _)
SiftDown(d, root, hi, first, order) ==
    IF 2 * root + 1 >= hi THEN d
    ELSE CHOOSE r \in
           { IF ~LessAt(d, order, first + root, first + child) THEN d
             ELSE SiftDown(Swap(d, first + root, first + child), child, hi,
                           first, order) :
               child \in { IF 2 * root + 2 < hi
                              /\ LessAt(d, order, first + 2 * root + 1,
                                        first + 2 * root + 2)
                           THEN 2 * root + 2 ELSE 2 * root + 1 } } : TRUE

\* for i := (hi - 1) / 2; i >= 0; i-- { siftDown_func(data, i, hi, first) }
RECURSIVE BuildHeap(_, _, _, _, _)
BuildHeap(d, i, hi, first, order) ==
    IF i < 0 THEN d
    ELSE CHOOSE r \in
           { BuildHeap(x, i - 1, hi, first, order) :
               x \in {SiftDown(d, i, hi, first, order)} } : TRUE

\* for i := hi - 1; i >= 0; i-- { data.Swap(first, first+i); siftDown_func(data, lo, i, first) }
RECURSIVE PopHeap(_, _, _, _)
PopHeap(d, i, first, order) ==
    IF i < 0 THEN d
    ELSE CHOOSE r \in
           { PopHeap(x, i - 1, first, order) :
               x \in {SiftDown(Swap(d, first, first + i), 0, i, first, order)} } : TRUE

\* heapSort_func(data, a, b)
HeapSort(d, a, b, order) ==
    CHOOSE r \in
      { PopHeap(x, b - a - 1, a, order) :
          x \in {BuildHeap(d, (b - a - 1) \div 2, b - a, a, order)} } : TRUE

\* A uint64 as the sequence of its 64 bits, bit k - 1 at position k.
WordZero ==
    <<0, 0, 0, 0, 0, 0, 0, 0, 0, 0, 0, 0, 0, 0, 0, 0,
      0, 0, 0, 0, 0, 0, 0, 0, 0, 0, 0, 0, 0, 0, 0, 0,
      0, 0, 0, 0, 0, 0, 0, 0, 0, 0, 0, 0, 0, 0, 0, 0,
      0, 0, 0, 0, 0, 0, 0, 0, 0, 0, 0, 0, 0, 0, 0, 0>>

\* uint64(n) for 0 <= n < 32768
Word(n) ==
    <<>> \o [k \in 1..64 |-> IF k <= 15 THEN (n \div Pow2(k - 1)) % 2 ELSE 0]

\* w << n
WordShl(w, n) == SubSeq(WordZero, 1, n) \o SubSeq(w, 1, 64 - n)

\* w >> n
WordShr(w, n) == SubSeq(w, n + 1, 64) \o SubSeq(WordZero, 1, n)

\* v ^ w
WordXor(v, w) ==
    CHOOSE r \in
      { <<>> \o [k \in 1..64 |-> (x[1][k] + x[2][k]) % 2] : x \in {<<v, w>>} } : TRUE

\* The value of the lowest bits of w, bits <= 15.
RECURSIVE WordLow(_, _)
WordLow(w, bits) ==
    IF bits = 0 THEN 0 ELSE w[1] + 2 * WordLow(Tail(w), bits - 1)

\* xorshift.Next: r ^= r << 13; r ^= r >> 7; r ^= r << 17
XorshiftNext(r) ==
    CHOOSE w \in
      { WordXor(c, WordShl(c, 17)) :
          c \in { WordXor(b, WordShr(b, 7)) :
                    b \in { WordXor(a, WordShl(a, 13)) : a \in {r} } } } : TRUE

\* The three swaps of breakPatterns_func: the elements around idx with the
\* elements at the next three random positions.
RECURSIVE BreakAt(_, _, _, _, _)
BreakAt(d, a, b, i, random) ==
    IF i >= 3 THEN d
    ELSE CHOOSE r \in
           { BreakAt(t[3], a, b, i + 1, t[1]) :
               t \in { <<next[1], next[2],
                          Swap(d, a + ((b - a) \div 4) * 2 - 1 - 1 + i,
                               a + (IF next[2] >= b - a THEN next[2] - (b - a)
                                    ELSE next[2]))>> :
                         next \in { <<w, WordLow(w, BitLenSmall(b - a))>> :
                                      w \in {XorshiftNext(random)} } } } : TRUE

\* breakPatterns_func(data, a, b): random starts at the length, the modulus is
\* 1 << bits.Len(length).
BreakPatterns(d, a, b) ==
    IF b - a >= 8 THEN BreakAt(d, a, b, 0, Word(b - a)) ELSE d

\* order2_func(data, a, b, swaps)
Order2(d, order, x, y, swaps) ==
    IF LessAt(d, order, y, x)
    THEN [a |-> y, b |-> x, swaps |-> swaps + 1]
    ELSE [a |-> x, b |-> y, swaps |-> swaps]

\* median_func(data, a, b, c, swaps)
Median(d, order, a, b, c, swaps) ==
    CHOOSE r \in
      { [at |-> r3.b, swaps |-> r3.swaps] :
          r3 \in { Order2(d, order, t[1].a, t[2].a, t[2].swaps) :
                     t \in { <<r1, Order2(d, order, r1.b, c, r1.swaps)>> :
                               r1 \in {Order2(d, order, a, b, swaps)} } } } : TRUE

\* medianAdjacent_func(data, a, swaps)
MedianAdjacent(d, order, a, swaps) == Median(d, order, a - 1, a, a + 1, swaps)

\* The Tukey ninther of choosePivot_func, for 50 elements or more.
Ninther(d, order, i, j, k) ==
    CHOOSE r \in
      { Median(d, order, t[1].at, t[2].at, t[3].at, t[3].swaps) :
          t \in { <<u[1], u[2], MedianAdjacent(d, order, k, u[2].swaps)>> :
                    u \in { <<m, MedianAdjacent(d, order, j, m.swaps)>> :
                              m \in {MedianAdjacent(d, order, i, 0)} } } } : TRUE

\* choosePivot_func(data, a, b)
ChoosePivot(d, order, a, b) ==
    CHOOSE r \in
      { [pivot |-> m.at,
         hint  |-> CASE m.swaps = 0  -> "increasing"
                     [] m.swaps = 12 -> "decreasing"
                     [] OTHER        -> "unknown"] :
          m \in { IF b - a < 8 THEN [at |-> a + q * 2, swaps |-> 0]
                  ELSE IF b - a < 50
                       THEN Median(d, order, a + q * 1, a + q * 2, a + q * 3, 0)
                       ELSE Ninther(d, order, a + q * 1, a + q * 2, a + q * 3) :
                    q \in {(b - a) \div 4} } } : TRUE

\* reverseRange_func(data, a, b), from the pair i, j on.
RECURSIVE ReverseRange(_, _, _)
ReverseRange(d, i, j) ==
    IF i < j
    THEN CHOOSE r \in { ReverseRange(x, i + 1, j - 1) : x \in {Swap(d, i, j)} } : TRUE
    ELSE d

\* for i < b && !data.Less(i, i-1) { i++ }
RECURSIVE SkipOrdered(_, _, _, _)
SkipOrdered(d, order, i, b) ==
    IF i < b /\ ~LessAt(d, order, i, i - 1) THEN SkipOrdered(d, order, i + 1, b) ELSE i

\* for j := i - 1; j >= 1; j-- { if !data.Less(j, j-1) { break }; data.Swap(j, j-1) }
RECURSIVE ShiftSmaller(_, _, _)
ShiftSmaller(d, order, j) ==
    IF j >= 1 /\ LessAt(d, order, j, j - 1)
    THEN ShiftSmaller(Swap(d, j, j - 1), order, j - 1)
    ELSE d

\* for j := i + 1; j < b; j++ { if !data.Less(j, j-1) { break }; data.Swap(j, j-1) }
RECURSIVE ShiftGreater(_, _, _, _)
ShiftGreater(d, order, j, b) ==
    IF j < b /\ LessAt(d, order, j, j - 1)
    THEN ShiftGreater(Swap(d, j, j - 1), order, j + 1, b)
    ELSE d

\* The loop of partialInsertionSort_func: at most 5 steps, none on fewer
\* than 50 elements.
RECURSIVE PartialInsertionSteps(_, _, _, _, _, _)
PartialInsertionSteps(d, order, a, b, from, step) ==
    IF step >= 5 THEN [data |-> d, sorted |-> FALSE]
    ELSE CHOOSE r \in
           { IF i = b THEN [data |-> d, sorted |-> TRUE]
             ELSE IF b - a < 50 THEN [data |-> d, sorted |-> FALSE]
             ELSE CHOOSE s \in
                    { PartialInsertionSteps(
                          IF b - i >= 2 THEN ShiftGreater(d2, order, i + 1, b) ELSE d2,
                          order, a, b, i, step + 1) :
                        d2 \in { IF i - a >= 2
                                 THEN ShiftSmaller(Swap(d, i, i - 1), order, i - 1)
                                 ELSE Swap(d, i, i - 1) } } : TRUE :
               i \in {SkipOrdered(d, order, from, b)} } : TRUE

\* partialInsertionSort_func(data, a, b)
PartialInsertionSort(d, a, b, order) == PartialInsertionSteps(d, order, a, b, a + 1, 0)

\* for i <= j && data.Less(i, a) { i++ }
RECURSIVE SkipLess(_, _, _, _, _)
SkipLess(d, order, a, i, j) ==
    IF i <= j /\ LessAt(d, order, i, a) THEN SkipLess(d, order, a, i + 1, j) ELSE i

\* for i <= j && !data.Less(j, a) { j-- }
RECURSIVE SkipNotLess(_, _, _, _, _)
SkipNotLess(d, order, a, i, j) ==
    IF i <= j /\ ~LessAt(d, order, j, a) THEN SkipNotLess(d, order, a, i, j - 1) ELSE j

\* The scans of partition_func from i and j inwards, and the pair they stop at.
Scan(d, order, a, i, j) ==
    CHOOSE r \in
      { <<i2, SkipNotLess(d, order, a, i2, j)>> :
          i2 \in {SkipLess(d, order, a, i, j)} } : TRUE

\* The loop of partition_func: swap the pair and scan on until i > j.
RECURSIVE PartitionSteps(_, _, _, _, _)
PartitionSteps(d, order, a, i, j) ==
    CHOOSE r \in
      { IF at[1] > at[2] THEN [data |-> d, j |-> at[2]]
        ELSE PartitionSteps(Swap(d, at[1], at[2]), order, a, at[1] + 1, at[2] - 1) :
          at \in {Scan(d, order, a, i, j)} } : TRUE

\* partition_func(data, a, b, pivot), after data.Swap(a, pivot).
PartitionAt(d, order, a, b) ==
    CHOOSE r \in
      { IF at[1] > at[2]
        THEN [data |-> Swap(d, at[2], a), mid |-> at[2], alreadyPartitioned |-> TRUE]
        ELSE CHOOSE s \in
               { [data |-> Swap(p.data, p.j, a), mid |-> p.j,
                  alreadyPartitioned |-> FALSE] :
                   p \in {PartitionSteps(Swap(d, at[1], at[2]), order, a,
                                         at[1] + 1, at[2] - 1)} } : TRUE :
          at \in {Scan(d, order, a, a + 1, b - 1)} } : TRUE

Partition(d, a, b, pivot, order) == PartitionAt(Swap(d, a, pivot), order, a, b)

\* for i <= j && !data.Less(a, i) { i++ }
RECURSIVE SkipNotGreater(_, _, _, _, _)
SkipNotGreater(d, order, a, i, j) ==
    IF i <= j /\ ~LessAt(d, order, a, i) THEN SkipNotGreater(d, order, a, i + 1, j) ELSE i

\* for i <= j && data.Less(a, j) { j-- }
RECURSIVE SkipGreater(_, _, _, _, _)
SkipGreater(d, order, a, i, j) ==
    IF i <= j /\ LessAt(d, order, a, j) THEN SkipGreater(d, order, a, i, j - 1) ELSE j

\* The loop of partitionEqual_func.
RECURSIVE PartitionEqualSteps(_, _, _, _, _)
PartitionEqualSteps(d, order, a, i, j) ==
    CHOOSE r \in
      { IF at[1] > at[2] THEN [data |-> d, mid |-> at[1]]
        ELSE PartitionEqualSteps(Swap(d, at[1], at[2]), order, a,
                                 at[1] + 1, at[2] - 1) :
          at \in { <<i2, SkipGreater(d, order, a, i2, j)>> :
                     i2 \in {SkipNotGreater(d, order, a, i, j)} } } : TRUE

\* partitionEqual_func(data, a, b, pivot)
PartitionEqual(d, a, b, pivot, order) ==
    PartitionEqualSteps(Swap(d, a, pivot), order, a, a + 1, b - 1)

\* pdqsort_func(data, a, b, limit) with its loop variables wasBalanced and
\* wasPartitioned.  A pass of its loop is Pdqsort, PdqsortPivot,
\* PdqsortOrdered and PdqsortPartition in turn.
RECURSIVE Pdqsort(_, _, _, _, _, _, _)

\* The partitioning of a pass: partitionEqual_func when the element before
\* the range is not less than the pivot, otherwise partition_func, the
\* shorter side sorted by a call and the longer one by the next pass.
PdqsortPartition(d, a, b, limit, pivot, wasBalanced, wasPartitioned, order) ==
    IF a > 0 /\ ~LessAt(d, order, a - 1, pivot)
    THEN CHOOSE r \in
           { Pdqsort(p.data, p.mid, b, limit, wasBalanced, wasPartitioned, order) :
               p \in {PartitionEqual(d, a, b, pivot, order)} } : TRUE
    ELSE CHOOSE r \in
           { IF p.mid - a < b - p.mid
             THEN CHOOSE s \in
                    { Pdqsort(x, p.mid + 1, b, limit, p.mid - a >= (b - a) \div 8,
                              p.alreadyPartitioned, order) :
                        x \in {Pdqsort(p.data, a, p.mid, limit, TRUE, TRUE, order)} } : TRUE
             ELSE CHOOSE s \in
                    { Pdqsort(x, a, p.mid, limit, b - p.mid >= (b - a) \div 8,
                              p.alreadyPartitioned, order) :
                        x \in {Pdqsort(p.data, p.mid + 1, b, limit, TRUE, TRUE,
                                       order)} } : TRUE :
               p \in {Partition(d, a, b, pivot, order)} } : TRUE

\* The pass once the pivot is chosen: a range that looks sorted is tried with
\* partialInsertionSort_func first.
PdqsortOrdered(d, a, b, limit, pivot, hint, wasBalanced, wasPartitioned, order) ==
    IF wasBalanced /\ wasPartitioned /\ hint = "increasing"
    THEN CHOOSE r \in
           { IF s.sorted THEN s.data
             ELSE PdqsortPartition(s.data, a, b, limit, pivot, wasBalanced,
                                   wasPartitioned, order) :
               s \in {PartialInsertionSort(d, a, b, order)} } : TRUE
    ELSE PdqsortPartition(d, a, b, limit, pivot, wasBalanced, wasPartitioned, order)

\* The choice of the pivot: a range that looks reversed is reversed.
PdqsortPivot(d, a, b, limit, wasBalanced, wasPartitioned, order) ==
    CHOOSE r \in
      { IF c.hint = "decreasing"
        THEN CHOOSE s \in
               { PdqsortOrdered(x, a, b, limit, (b - 1) - (c.pivot - a),
                                "increasing", wasBalanced, wasPartitioned, order) :
                   x \in {ReverseRange(d, a, b - 1)} } : TRUE
        ELSE PdqsortOrdered(d, a, b, limit, c.pivot, c.hint,
                            wasBalanced, wasPartitioned, order) :
          c \in {ChoosePivot(d, order, a, b)} } : TRUE

\* At most 12 elements (maxInsertion) are sorted by insertion, a range whose
\* limit is used up by heapSort_func, and a range left by an unbalanced
\* partition is shuffled by breakPatterns_func first.
Pdqsort(d, a, b, limit, wasBalanced, wasPartitioned, order) ==
    IF b - a <= 12 THEN InsertionSort(d, a, b, order)
    ELSE IF limit = 0 THEN HeapSort(d, a, b, order)
    ELSE IF wasBalanced
         THEN PdqsortPivot(d, a, b, limit, wasBalanced, wasPartitioned, order)
         ELSE CHOOSE r \in
                { PdqsortPivot(x, a, b, limit - 1, wasBalanced, wasPartitioned,
                               order) :
                    x \in {BreakPatterns(d, a, b)} } : TRUE

\* sort.Slice(x, less): pdqsort_func(x, 0, length, bits.Len(length))
SortSlice(d, order) ==
    CHOOSE r \in
      { Pdqsort(x, 0, Len(x), BitLenSmall(Len(x)), TRUE, TRUE, order) :
          x \in {<<>> \o d} } : TRUE

\* less(i, j) == Distance[i] < Distance[j]
SortByDistance(servers) == SortSlice(servers, "Distance")

(***************************************************************************)
(* Capacity scoring                                                        *)
(***************************************************************************)
DefaultUserBandwidth == 1000

HighSpeedLimit == 10000

HighSpeedAssumed == 25000

\* float64(100), float64(200), float64(1000) and 1.5
Hundred == F64FromInt(100)

TwoHundred == F64FromInt(200)

Thousand == F64FromInt(1000)

BandwidthMargin == ParseFloat(<<"1", ".", "5">>).val

\* EstimatedUserBandwidth without the high-speed assumption.
EstimatedUserBandwidthAsMeasured(download) ==
    IF Positive(download) THEN download ELSE F64FromInt(DefaultUserBandwidth)

\* The estimated user bandwidth in Mbps from the prior speed test figure.
EstimatedUserBandwidth(download) ==
    LET measured == IF Positive(download) THEN download
                    ELSE F64FromInt(DefaultUserBandwidth)
    IN  IF F64Less(F64FromInt(HighSpeedLimit), measured)
        THEN F64FromInt(HighSpeedAssumed)
        ELSE measured

\* bandwidthGbps of the advertised capacity string: "NxM" is N times M, a
\* plain number is itself, anything else is 1 Gbps.
ParseBandwidthGbps(bandwidthStr) ==
    IF Contains(bandwidthStr, <<"x">>)
    THEN CHOOSE gbps \in
           { IF Len(parts) = 2
             THEN CHOOSE product \in
                    { IF ~count.err /\ ~speed.err
                      THEN F64Mul(count.val, speed.val)
                      ELSE F64FromInt(1) :
                        count \in {ParseFloat(parts[1])},
                        speed \in {ParseFloat(parts[2])} } : TRUE
             ELSE F64FromInt(1) :
               parts \in {Split(bandwidthStr, "x")} } : TRUE
    ELSE CHOOSE gbps \in
           { IF ~speed.err THEN speed.val ELSE F64FromInt(1) :
               speed \in {ParseFloat(bandwidthStr)} } : TRUE

\* bandwidthMbps := bandwidthGbps * 1000
ParseBandwidthMbps(bandwidthStr) ==
    F64Mul(ParseBandwidthGbps(bandwidthStr), Thousand)

Min(a, b) == IF a < b THEN a ELSE b

\* The float64 constants 0.8 and 0.2 of the score.
BandwidthWeight == ParseFloat(<<"0", ".", "8">>).val

DistanceWeight == ParseFloat(<<"0", ".", "2">>).val

\* if x > 100 { x = 100 }
CapAtHundred(x) == IF F64Less(Hundred, x) THEN Hundred ELSE x

\* bandwidthScore := (bandwidthGbps / 100) * 100, capped at 100
BandwidthScore(bandwidthGbps) ==
    CapAtHundred(F64Mul(F64Div(bandwidthGbps, Hundred), Hundred))

\* distanceScore := float64(server.Distance) / 200, capped at 100
DistanceScore(distance) == CapAtHundred(F64Div(F64FromInt(distance), TwoHundred))

\* The ways a build evaluates a*b - c*d: both products rounded, or one of
\* them fused into the subtraction (a fused multiply-add, which Go permits
\* and emits on arm64, ppc64, s390x and riscv64).
Builds == {"separate", "fusedBandwidth", "fusedDistance"}

\* a*wa - b*wb as the build evaluates it.
WeighedDifference(build, a, wa, b, wb) ==
    CASE build = "separate"       -> F64Sub(F64Mul(a, wa), F64Mul(b, wb))
      [] build = "fusedBandwidth" -> F64FMA(a, wa, F64Neg(F64Mul(b, wb)))
      [] build = "fusedDistance"  -> F64FMA(F64Neg(b), wb, F64Mul(a, wa))

\* score := bandwidthScore*0.8 - distanceScore*0.2
Score(build, bandwidthGbps, distance) ==
    CHOOSE score \in
      { WeighedDifference(build, bandwidthScore, bandwidthWeight,
                          distanceScore, distanceWeight) :
            bandwidthScore  \in {BandwidthScore(bandwidthGbps)},
            distanceScore   \in {DistanceScore(distance)},
            bandwidthWeight \in {BandwidthWeight},
            distanceWeight  \in {DistanceWeight} } : TRUE

\* bandwidthMbps and score of one capacity string at one distance, as one
\* pass of the scoring loop computes them.
Rating(build, bandwidthStr, distance) ==
    CHOOSE rating \in
      { [BandwidthMbps |-> F64Mul(bandwidthGbps, Thousand),
         Score         |-> Score(build, bandwidthGbps, distance)] :
            bandwidthGbps \in {ParseBandwidthGbps(bandwidthStr)} } : TRUE

(***************************************************************************)
(* Server selection                                                        *)
(***************************************************************************)
MaxServers == 5

FallbackPool == 10

\* minRequiredBandwidth := estimatedUserBandwidth * 1.5
MinRequiredBandwidth(estimate) == F64Mul(estimate, BandwidthMargin)

\* server.BandwidthMbps >= minRequiredBandwidth
MeetsBandwidth(server, minRequired) ==
    F64LessEq(minRequired, server.BandwidthMbps)

\* The servers of the scored list that meet the threshold, in list order.
FilterBandwidth(scored, minRequired) ==
    SelectSeq(scored, LAMBDA server : MeetsBandwidth(server, minRequired))

\* HighBandwidthServers without the fallback: the strict tier whatever its size.
HighBandwidthServersStrictOnly(scored, estimate) ==
    CHOOSE strict \in
      { FilterBandwidth(scored, minRequired) :
          minRequired \in {MinRequiredBandwidth(estimate)} } : TRUE

\* highBandwidthServers: the strict tier, or the top of the scored list when
\* the strict tier has fewer than 5 entries.
HighBandwidthServers(scored, estimate) ==
    CHOOSE pool \in
      { IF Len(strict) < MaxServers
        THEN SubSeq(scored, 1, Min(FallbackPool, Len(scored)))
        ELSE strict :
          strict \in { FilterBandwidth(scored, minRequired) :
                          minRequired \in {MinRequiredBandwidth(estimate)} } } : TRUE

\* AlreadySelected never finding the server.
AlreadySelectedNever(selected, server) == FALSE

AlreadySelected(selected, server) ==
    \E i \in 1..Len(selected) :
        selected[i].Host = server.Host /\ selected[i].Port = server.Port

LocationKey(server) == server.City \o "," \o server.Country

Represented(selected, server) ==
    /\ \E i \in 1..Len(selected) : selected[i].Provider = server.Provider
    /\ \E i \in 1..Len(selected) : LocationKey(selected[i]) = LocationKey(server)

\* The diversity loop from pool[k] on: skip what is selected already or
\* brings neither a new provider nor a new location; stop at 5.
RECURSIVE DiversityPass(_, _, _)
DiversityPass(pool, k, selected) ==
    IF k > Len(pool) THEN selected
    ELSE IF AlreadySelected(selected, pool[k]) \/ Represented(selected, pool[k])
         THEN DiversityPass(pool, k + 1, selected)
         ELSE LET grown == Append(selected, pool[k])
              IN  IF Len(grown) >= MaxServers THEN grown
                  ELSE DiversityPass(pool, k + 1, grown)

\* FillPass adding nothing.
FillPassAddsNothing(pool, k, selected) == selected

\* The fill loop from pool[k] on: add whatever is not selected yet; stop at 5.
RECURSIVE FillPass(_, _, _)
FillPass(pool, k, selected) ==
    IF k > Len(pool) THEN selected
    ELSE IF AlreadySelected(selected, pool[k])
         THEN FillPass(pool, k + 1, selected)
         ELSE LET grown == Append(selected, pool[k])
              IN  IF Len(grown) >= MaxServers THEN grown
                  ELSE FillPass(pool, k + 1, grown)

\* SelectServers taking the whole pool.
SelectServersTakesPool(pool) == pool

SelectServers(pool) ==
    LET first    == IF Len(pool) > 0 THEN <<pool[1]>> ELSE <<>>
        diverse  == DiversityPass(pool, 1, first)
        filled   == IF Len(diverse) < MaxServers THEN FillPass(pool, 1, diverse)
                    ELSE diverse
    IN  IF Len(filled) > MaxServers THEN SubSeq(filled, 1, MaxServers) ELSE filled

(***************************************************************************)
(* Geolocation                                                             *)
(***************************************************************************)
\* selfLat, selfLon from the "lat,lon" string: both stay 0 unless the string
\* is non-empty and has exactly two parts; ParseFloat errors are ignored.
ParseLoc(loc) ==
    LET locParts == Split(loc, ",")
    IN  IF loc # <<>> /\ Len(locParts) = 2
        THEN [lat |-> ParseFloat(locParts[1]).val,
              lon |-> ParseFloat(locParts[2]).val]
        ELSE [lat |-> F64FromInt(0), lon |-> F64FromInt(0)]

\* LocateStep taking an undecodable body for an empty answer.
LocateStepIgnoresDecode(answer) ==
    IF answer.err THEN [err |-> "error getting self location"]
    ELSE [err |-> "nil"]

\* The step from the ipinfo.io answer: a failed command or an undecodable
\* body is an error; any decoded object goes on.
LocateStep(answer) ==
    IF answer.err THEN [err |-> "error getting self location"]
    ELSE IF ~answer.json THEN [err |-> "error parsing self location"]
    ELSE [err |-> "nil"]

(***************************************************************************)
(* The test task of one selected server                                    *)
(***************************************************************************)
\* The sentinel -1 of DownloadMbps and UploadMbps.
Unmeasured == F64FromInt(0 - 1)

\* float64(1000000)
Million == F64FromInt(1000000)

\* Throughput figures iperf3 may report, in bits per second: none, less than
\* one Mbps, two Mbps.
BitsPerSecond == {F64FromInt(0), F64FromInt(500), F64FromInt(2000000)}

\* The quotients of these figures, evaluated once.
ReportedMbps == [b \in BitsPerSecond |-> F64Div(b, Million)]

\* bitsPerSecond / 1000000
ToMbps(bitsPerSecond) ==
    IF bitsPerSecond \in DOMAIN ReportedMbps THEN ReportedMbps[bitsPerSecond]
    ELSE F64Div(bitsPerSecond, Million)


\* NewResult with the sentinels forgotten (Go's zero values).
NewResultZero(server, rank) ==
    [Host          |-> server.Host,
     Port          |-> server.Port,
     Location      |-> server.City \o ", " \o server.Country,
     Distance      |-> server.Distance,
     DownloadMbps  |-> F64Zero(FALSE),
     UploadMbps    |-> F64Zero(FALSE),
     TestCompleted |-> FALSE,
     Rank          |-> rank]

NewResult(server, rank) ==
    [Host          |-> server.Host,
     Port          |-> server.Port,
     Location      |-> server.City \o ", " \o server.Country,
     Distance      |-> server.Distance,
     DownloadMbps  |-> Unmeasured,
     UploadMbps    |-> Unmeasured,
     TestCompleted |-> FALSE,
     Rank          |-> rank]

\* len(strings.Split(Command, " ")) < 3
InvalidCommand(server) == Len(Split(server.Command, " ")) < 3

SupportsUpload(options) == Contains(options, <<"-", "R">>)

\* MarkCompleted looking at the download leg only.
MarkCompletedDownloadOnly(res) ==
    IF Positive(res.DownloadMbps) THEN [res EXCEPT !.TestCompleted = TRUE] ELSE res

\* The final check before the last send.
MarkCompleted(res) ==
    IF Positive(res.DownloadMbps) /\ Positive(res.UploadMbps)
    THEN [res EXCEPT !.TestCompleted = TRUE]
    ELSE res

\* A returned invocation: "fail" when runCommand gave an error, "malformed"
\* when the output is not JSON or lacks the leg's throughput, else "ok".
Outcome(ret, key) ==
    IF ret.err THEN "fail"
    ELSE IF ~ret.json \/ ret[key] = <<>> THEN "malformed"
    ELSE "ok"

\* DownloadStep sending at once the figure of a successful retry, without
\* the upload leg.
DownloadStepRetryEndsTask(res, server, attempt, ret) ==
    IF ret.err
    THEN [pc |-> IF attempt = 1 THEN "dl2" ELSE "send", result |-> res]
    ELSE IF ~ret.json THEN [pc |-> "send", result |-> res]
    ELSE LET got == IF ret.sum_received # <<>>
                    THEN [res EXCEPT !.DownloadMbps = ToMbps(ret.sum_received[1])]
                    ELSE res
         IN  IF attempt = 1 /\ Positive(got.DownloadMbps) /\ SupportsUpload(server.Options)
             THEN [pc |-> "ul1", result |-> got]
             ELSE [pc |-> "send", result |-> MarkCompleted(got)]

\* DownloadStep going on to the upload leg whenever a speed was reported,
\* positive or not, and whatever the options say.
DownloadStepAlwaysUpload(res, server, attempt, ret) ==
    IF ret.err
    THEN [pc |-> IF attempt = 1 THEN "dl2" ELSE "send", result |-> res]
    ELSE IF ~ret.json THEN [pc |-> "send", result |-> res]
    ELSE LET got == IF ret.sum_received # <<>>
                    THEN [res EXCEPT !.DownloadMbps = ToMbps(ret.sum_received[1])]
                    ELSE res
         IN  IF F64LessEq(F64Zero(FALSE), got.DownloadMbps)
             THEN [pc |-> "ul1", result |-> got]
             ELSE [pc |-> "send", result |-> MarkCompleted(got)]

\* What the task does when a download invocation returns: after a failed
\* first attempt the degraded retry; after a failed retry or undecodable
\* output the result is sent as it is; else the speed is extracted and the
\* upload leg follows when the speed is positive and -R is offered.
DownloadStep(res, server, attempt, ret) ==
    IF ret.err
    THEN [pc |-> IF attempt = 1 THEN "dl2" ELSE "send", result |-> res]
    ELSE IF ~ret.json THEN [pc |-> "send", result |-> res]
    ELSE LET got == IF ret.sum_received # <<>>
                    THEN [res EXCEPT !.DownloadMbps = ToMbps(ret.sum_received[1])]
                    ELSE res
         IN  IF Positive(got.DownloadMbps) /\ SupportsUpload(server.Options)
             THEN [pc |-> "ul1", result |-> got]
             ELSE [pc |-> "send", result |-> MarkCompleted(got)]

\* UploadStep running the simpler upload after every first attempt.
UploadStepRetriesAlways(res, server, attempt, ret) ==
    IF attempt = 1 THEN [pc |-> "ul2", result |-> res]
    ELSE IF ret.err \/ ~ret.json THEN [pc |-> "send", result |-> res]
    ELSE LET got == IF ret.sum_sent # <<>>
                    THEN [res EXCEPT !.UploadMbps = ToMbps(ret.sum_sent[1])]
                    ELSE res
         IN  [pc |-> "send", result |-> MarkCompleted(got)]

\* UploadStep giving up the download figure with a failed upload leg.
UploadStepDiscardsDownload(res, server, attempt, ret) ==
    IF ret.err
    THEN [pc |-> IF attempt = 1 THEN "ul2" ELSE "send",
          result |-> IF attempt = 1 THEN res
                     ELSE [res EXCEPT !.DownloadMbps = Unmeasured]]
    ELSE IF ~ret.json
         THEN [pc |-> "send", result |-> [res EXCEPT !.DownloadMbps = Unmeasured]]
    ELSE LET got == IF ret.sum_sent # <<>>
                    THEN [res EXCEPT !.UploadMbps = ToMbps(ret.sum_sent[1])]
                    ELSE res
         IN  [pc |-> "send", result |-> MarkCompleted(got)]

\* What the task does when an upload invocation returns.
UploadStep(res, server, attempt, ret) ==
    IF ret.err
    THEN [pc |-> IF attempt = 1 THEN "ul2" ELSE "send", result |-> res]
    ELSE IF ~ret.json THEN [pc |-> "send", result |-> res]
    ELSE LET got == IF ret.sum_sent # <<>>
                    THEN [res EXCEPT !.UploadMbps = ToMbps(ret.sum_sent[1])]
                    ELSE res
         IN  [pc |-> "send", result |-> MarkCompleted(got)]

\* BeginStep returning from the invalid-command branch without sending.
BeginStepSkipSend(server) == IF InvalidCommand(server) THEN "return" ELSE "dl1"

\* Where the task goes from its start: an invalid command sends at once.
BeginStep(server) == IF InvalidCommand(server) THEN "send" ELSE "dl1"

(***************************************************************************)
(* Aggregation                                                             *)
(***************************************************************************)
\* SortByDownload with the comparison reversed.
SortByDownloadAscending(rs) == SortSlice(rs, "DownloadMbpsAscending")

\* less(i, j) == DownloadMbps[i] > DownloadMbps[j]
SortByDownload(rs) == SortSlice(rs, "DownloadMbps")

\* AssignRanks leaving the rank given at launch.
KeepLaunchRanks(rs) == rs

AssignRanks(rs) == [i \in 1..Len(rs) |-> [rs[i] EXCEPT !.Rank = i]]

Aggregate(rs) == AssignRanks(SortByDownload(rs))

\* WaitReturns off by one: the last task is not waited for.
WaitReturnsEarly(counter) == counter <= 1

\* wg.Wait() returns
WaitReturns(counter) == counter = 0

(***************************************************************************)
(* Inputs of the model                                                     *)
(***************************************************************************)
\* Longest catalog feed drawn.
MaxFeed == 2

\* A catalog in the feed's format.  The third entry's country is not in the
\* table, the fourth one's launch command has no "iperf3 -c" form.
Catalog ==
    << [IP_HOST   |-> <<"i", "p", "e", "r", "f", "3", " ", "-", "c", " ", "a", ".",
                        "i", "o", " ", "-", "p", " ", "5", "2", "0", "1", "-", "5",
                        "2", "1", "0">>,
        OPTIONS   |-> <<"-", "R">>,
        GB_S      |-> <<"1", "0">>,
        COUNTRY   |-> "US", SITE |-> "New York", CONTINENT |-> "North America",
        PROVIDER  |-> "Alpha"],
       [IP_HOST   |-> <<"i", "p", "e", "r", "f", "3", " ", "-", "c", " ", "b", ".",
                        "i", "o">>,
        OPTIONS   |-> <<>>,
        GB_S      |-> <<"2", "x", "1", "0">>,
        COUNTRY   |-> "FR", SITE |-> "Paris", CONTINENT |-> "Europe",
        PROVIDER  |-> "Beta"],
       [IP_HOST   |-> <<"i", "p", "e", "r", "f", "3", " ", "-", "c", " ", "d", ".",
                        "i", "o">>,
        OPTIONS   |-> <<"-", "R">>,
        GB_S      |-> <<"1", "0">>,
        COUNTRY   |-> "ZZ", SITE |-> "Nowhere", CONTINENT |-> "Europe",
        PROVIDER  |-> "Gamma"],
       [IP_HOST   |-> <<"c", ".", "i", "o">>,
        OPTIONS   |-> <<"-", "R">>,
        GB_S      |-> <<"4", "0">>,
        COUNTRY   |-> "DE", SITE |-> "Berlin", CONTINENT |-> "Europe",
        PROVIDER  |-> "Alpha"],
       [IP_HOST   |-> <<"i", "p", "e", "r", "f", "3", " ", "-", "c", " ", "e", ".",
                        "i", "o", " ", "-", "p", " ", "9", "2", "0", "0">>,
        OPTIONS   |-> <<"-", "R", ",", "-", "u">>,
        GB_S      |-> <<"f", "a", "s", "t">>,
        COUNTRY   |-> "JP", SITE |-> "Tokyo", CONTINENT |-> "Asia",
        PROVIDER  |-> "Beta"] >>

\* A catalog in the feed's format: seven providers, two entries of one provider
\* in one city, one host and port listed twice, capacities from 0.5 to 100
\* Gbps, one capacity that is no number, one that ParseFloat reads as NaN and
\* one country without coordinates.
SelectionCatalog ==
    << [IP_HOST   |-> <<"i", "p", "e", "r", "f", "3", " ", "-", "c", " ",
                      "a", ".", "i", "o">>,
        OPTIONS   |-> <<"-", "R">>,
        GB_S      |-> <<"1", "0">>,
        COUNTRY   |-> "US", SITE |-> "New York", CONTINENT |-> "North America",
        PROVIDER  |-> "Alpha"],
       [IP_HOST   |-> <<"i", "p", "e", "r", "f", "3", " ", "-", "c", " ",
                      "b", ".", "i", "o">>,
        OPTIONS   |-> <<"-", "R">>,
        GB_S      |-> <<"2", "x", "1", "0">>,
        COUNTRY   |-> "FR", SITE |-> "Paris", CONTINENT |-> "Europe",
        PROVIDER  |-> "Beta"],
       [IP_HOST   |-> <<"i", "p", "e", "r", "f", "3", " ", "-", "c", " ",
                      "c", ".", "i", "o">>,
        OPTIONS   |-> <<"-", "R">>,
        GB_S      |-> <<"4", "0">>,
        COUNTRY   |-> "DE", SITE |-> "Berlin", CONTINENT |-> "Europe",
        PROVIDER  |-> "Gamma"],
       [IP_HOST   |-> <<"i", "p", "e", "r", "f", "3", " ", "-", "c", " ",
                      "d", ".", "i", "o">>,
        OPTIONS   |-> <<"-", "R">>,
        GB_S      |-> <<"1", "0", "0">>,
        COUNTRY   |-> "JP", SITE |-> "Tokyo", CONTINENT |-> "Asia",
        PROVIDER  |-> "Delta"],
       [IP_HOST   |-> <<"i", "p", "e", "r", "f", "3", " ", "-", "c", " ",
                      "e", ".", "i", "o">>,
        OPTIONS   |-> <<"-", "R">>,
        GB_S      |-> <<"1", "0">>,
        COUNTRY   |-> "AU", SITE |-> "Sydney", CONTINENT |-> "Oceania",
        PROVIDER  |-> "Epsilon"],
       [IP_HOST   |-> <<"i", "p", "e", "r", "f", "3", " ", "-", "c", " ",
                      "f", ".", "i", "o">>,
        OPTIONS   |-> <<"-", "R">>,
        GB_S      |-> <<"1", "0">>,
        COUNTRY   |-> "US", SITE |-> "New York", CONTINENT |-> "North America",
        PROVIDER  |-> "Alpha"],
       [IP_HOST   |-> <<"i", "p", "e", "r", "f", "3", " ", "-", "c", " ",
                      "g", ".", "i", "o">>,
        OPTIONS   |-> <<"-", "R">>,
        GB_S      |-> <<"1">>,
        COUNTRY   |-> "GB", SITE |-> "London", CONTINENT |-> "Europe",
        PROVIDER  |-> "Alpha"],
       [IP_HOST   |-> <<"i", "p", "e", "r", "f", "3", " ", "-", "c", " ",
                      "a", ".", "i", "o">>,
        OPTIONS   |-> <<"-", "R">>,
        GB_S      |-> <<"4", "0">>,
        COUNTRY   |-> "NL", SITE |-> "Amsterdam", CONTINENT |-> "Europe",
        PROVIDER  |-> "Zeta"],
       [IP_HOST   |-> <<"i", "p", "e", "r", "f", "3", " ", "-", "c", " ",
                      "h", ".", "i", "o">>,
        OPTIONS   |-> <<"-", "R">>,
        GB_S      |-> <<"f", "a", "s", "t">>,
        COUNTRY   |-> "DE", SITE |-> "Frankfurt", CONTINENT |-> "Europe",
        PROVIDER  |-> "Beta"],
       [IP_HOST   |-> <<"i", "p", "e", "r", "f", "3", " ", "-", "c", " ",
                      "i", ".", "i", "o">>,
        OPTIONS   |-> <<"-", "R">>,
        GB_S      |-> <<"1", "0", "0">>,
        COUNTRY   |-> "ZZ", SITE |-> "Nowhere", CONTINENT |-> "Europe",
        PROVIDER  |-> "Eta"],
       [IP_HOST   |-> <<"i", "p", "e", "r", "f", "3", " ", "-", "c", " ",
                      "j", ".", "i", "o">>,
        OPTIONS   |-> <<"-", "R">>,
        GB_S      |-> <<"N", "a", "N">>,
        COUNTRY   |-> "SG", SITE |-> "Singapore", CONTINENT |-> "Asia",
        PROVIDER  |-> "Eta"],
       [IP_HOST   |-> <<"i", "p", "e", "r", "f", "3", " ", "-", "c", " ",
                      "k", ".", "i", "o">>,
        OPTIONS   |-> <<"-", "R">>,
        GB_S      |-> <<"0", ".", "5">>,
        COUNTRY   |-> "US", SITE |-> "Chicago", CONTINENT |-> "North America",
        PROVIDER  |-> "Theta"] >>

\* The feeds drawn: every run of at most MaxFeed consecutive catalog entries.
Feeds ==
    {SubSeq(Catalog, w[1], w[2]) :
        w \in {v \in (1..Len(Catalog)) \X (0..Len(Catalog)) : v[2] - v[1] < MaxFeed}}

\* What curl can return for ipinfo.io: a failure, an undecodable body, or an
\* object whose country or "lat,lon" string may be missing or malformed.
GeoAnswers ==
    { [err |-> TRUE,  json |-> FALSE, Country |-> "", Loc |-> <<>>],
      [err |-> FALSE, json |-> FALSE, Country |-> "", Loc |-> <<>>],
      [err |-> FALSE, json |-> TRUE,  Country |-> "US",
       Loc |-> <<"4", "0", ".", "0", ",", "-", "7", "5", ".", "0">>],
      [err |-> FALSE, json |-> TRUE,  Country |-> "US", Loc |-> <<>>],
      [err |-> FALSE, json |-> TRUE,  Country |-> "US", Loc |-> <<"x", ",", "y">>],
      [err |-> FALSE, json |-> TRUE,  Country |-> "",
       Loc |-> <<"4", "e", "1", ",", "-", "7", ".", "5", "e", "1">>] }

\* What curl can return for the catalog.
CatalogAnswers ==
    { [err |-> TRUE,  json |-> FALSE, feed |-> <<>>],
      [err |-> FALSE, json |-> FALSE, feed |-> <<>>] } \cup
    { [err |-> FALSE, json |-> TRUE, feed |-> f] : f \in Feeds }

Reported == {<<>>} \cup {<<v>> : v \in BitsPerSecond}

\* What an iperf3 invocation can return.
Returns ==
    { [err |-> TRUE,  json |-> FALSE, sum_received |-> <<>>, sum_sent |-> <<>>],
      [err |-> FALSE, json |-> FALSE, sum_received |-> <<>>, sum_sent |-> <<>>] } \cup
    { [err |-> FALSE, json |-> TRUE, sum_received |-> r, sum_sent |-> s] :
          r \in Reported, s \in Reported }

\* The prior local speed test figure: -1, the value runNetworkBenchmarks sets
\* before a speed test that measures nothing, or what runLocalSpeedtest
\* measured.
SpeedtestFigures == {F64FromInt(0 - 1), F64FromInt(940)}

(***************************************************************************)
(* Scoring of the located servers.  The ratings of the catalogs' servers   *)
(* are evaluated once and read from there; any other capacity string or    *)
(* distance is rated on the spot.                                          *)
(***************************************************************************)
CatalogServers ==
    {s[1] : s \in {ProcessServer(at[1][at[2]], F64FromInt(at[3]), F64FromInt(at[4])) :
                      at \in {<<Catalog, k, 0, 0>> : k \in 1..Len(Catalog)}
                         \cup {<<Catalog, k, 40, 0 - 75>> : k \in 1..Len(Catalog)}
                         \cup {<<SelectionCatalog, k, 40, 0 - 75>> :
                                   k \in 1..Len(SelectionCatalog)}} \ {<<>>}}

RatedServers ==
    {<<build, s.Bandwidth, s.Distance>> : build \in Builds, s \in CatalogServers}

CatalogRatings == [t \in RatedServers |-> Rating(t[1], t[2], t[3])]

RatingOf(build, bandwidthStr, distance) ==
    IF <<build, bandwidthStr, distance>> \in RatedServers
    THEN CatalogRatings[<<build, bandwidthStr, distance>>]
    ELSE Rating(build, bandwidthStr, distance)

ScoreServer(build, server) ==
    CHOOSE scored \in
      { [Host          |-> server.Host,
         Port          |-> server.Port,
         City          |-> server.City,
         Country       |-> server.Country,
         Distance      |-> server.Distance,
         Lat           |-> server.Lat,
         Lon           |-> server.Lon,
         Command       |-> server.Command,
         Options       |-> server.Options,
         Bandwidth     |-> server.Bandwidth,
         Provider      |-> server.Provider,
         BandwidthMbps |-> rating.BandwidthMbps,
         Score         |-> rating.Score] :
            rating \in {RatingOf(build, server.Bandwidth, server.Distance)} } : TRUE

\* less(i, j) == Score[i] > Score[j]
SortByScore(servers) == SortSlice(servers, "Score")

\* serversWithBandwidth: every located server scored, highest score first.
ScoreServers(build, located) ==
    SortByScore([i \in 1..Len(located) |-> ScoreServer(build, located[i])])

(***************************************************************************)
(* The run                                                                 *)
(***************************************************************************)
Init ==
    /\ pc = "check"
    /\ err = "nil"
    /\ speedtestDownload \in SpeedtestFigures
    /\ selfLocation = [Country |-> "", Loc |-> <<>>]
    /\ selfLat = F64FromInt(0)
    /\ selfLon = F64FromInt(0)
    /\ serversWithBandwidth = <<>>
    /\ estimatedUserBandwidth = F64FromInt(DefaultUserBandwidth)
    /\ highBandwidthServers = <<>>
    /\ selectedServers = <<>>
    /\ resultChan = <<>>
    /\ closed = FALSE
    /\ wg = 0
    /\ tpc = <<>>
    /\ result = <<>>
    /\ calls = <<>>
    /\ sends = <<>>
    /\ results = <<>>
    /\ NetblastResults = <<>>

\* exec.LookPath for iperf3, curl and jq.
CheckTools ==
    /\ pc = "check"
    /\ \E missing \in {"none", "iperf3", "curl", "jq"} :
          IF missing = "none"
          THEN pc' = "locate" /\ err' = err
          ELSE pc' = "done" /\ err' = missing \o " command not found"
    /\ UNCHANGED <<speedtestDownload, selfLocation, selfLat, selfLon,
                   serversWithBandwidth, estimatedUserBandwidth,
                   highBandwidthServers, selectedServers, resultChan, closed,
                   wg, tpc, result, calls, sends, results, NetblastResults>>

\* curl ipinfo.io, decode, extract latitude and longitude: the step taken
\* when ipinfo.io gives this answer.
LocateWith(answer) ==
    /\ pc = "locate"
    /\ LET step == LocateStep(answer)
           where == ParseLoc(answer.Loc)
       IN  IF step.err # "nil"
           THEN /\ pc' = "done"
                /\ err' = step.err
                /\ UNCHANGED <<selfLocation, selfLat, selfLon>>
           ELSE /\ pc' = "fetch"
                /\ err' = err
                /\ selfLocation' = [Country |-> answer.Country, Loc |-> answer.Loc]
                /\ selfLat' = where.lat
                /\ selfLon' = where.lon
    /\ UNCHANGED <<speedtestDownload, serversWithBandwidth,
                   estimatedUserBandwidth, highBandwidthServers, selectedServers,
                   resultChan, closed, wg, tpc, result, calls, sends, results,
                   NetblastResults>>

Locate == \E answer \in GeoAnswers : LocateWith(answer)

\* curl the catalog, decode it, locate, score and select the servers and
\* start one goroutine per selected server: the step taken when the catalog
\* endpoint gives this answer, in any of the builds.
FetchWith(answer) ==
    /\ pc = "fetch"
    /\ IF answer.err \/ ~answer.json
       THEN /\ pc' = "done"
            /\ err' = IF answer.err THEN "error fetching iperf3 server list"
                      ELSE "error parsing iperf3 server list"
            /\ UNCHANGED <<serversWithBandwidth, estimatedUserBandwidth,
                           highBandwidthServers, selectedServers, wg, tpc,
                           calls, sends>>
       ELSE \E located \in
                 {SortByDistance(ProcessServers(answer.feed, selfLat, selfLon))},
               build \in Builds :
            \E scored   \in {ScoreServers(build, located)},
               estimate \in {EstimatedUserBandwidth(speedtestDownload)} :
            \E pool     \in {HighBandwidthServers(scored, estimate)} :
            \E selected \in {SelectServers(pool)} :
            LET n == Len(selected)
            IN  /\ pc' = "collect"
                /\ err' = err
                /\ serversWithBandwidth' = scored
                /\ estimatedUserBandwidth' = estimate
                /\ highBandwidthServers' = pool
                /\ selectedServers' = selected
                /\ wg' = n
                /\ tpc' = [i \in 1..n |-> "pending"]
                /\ calls' = [i \in 1..n |-> <<>>]
                /\ sends' = [i \in 1..n |-> 0]
    /\ UNCHANGED <<speedtestDownload, selfLocation, selfLat, selfLon, resultChan,
                   closed, result, results, NetblastResults>>

FetchAndLaunch == \E answer \in CatalogAnswers : FetchWith(answer)

Tasks == DOMAIN tpc

\* The goroutine starts: it builds its result and splits the command.
TaskBegin(i) ==
    /\ tpc[i] = "pending"
    /\ result' = (i :> NewResult(selectedServers[i], i)) @@ result
    /\ tpc' = [tpc EXCEPT ![i] = BeginStep(selectedServers[i])]
    /\ UNCHANGED <<pc, err, speedtestDownload, selfLocation, selfLat, selfLon,
                   serversWithBandwidth, estimatedUserBandwidth,
                   highBandwidthServers, selectedServers, resultChan, closed, wg,
                   calls, sends, results, NetblastResults>>

\* An iperf3 invocation of the download leg returns.
Download(i, attempt, ret) ==
    LET step == DownloadStep(result[i], selectedServers[i], attempt, ret)
    IN  /\ result' = [result EXCEPT ![i] = step.result]
        /\ tpc' = [tpc EXCEPT ![i] = step.pc]
        /\ calls' = [calls EXCEPT ![i] = Append(@,
                        [leg |-> "download",
                         mode |-> IF attempt = 1 THEN "full" ELSE "degraded",
                         outcome |-> Outcome(ret, "sum_received")])]
        /\ UNCHANGED <<pc, err, speedtestDownload, selfLocation, selfLat, selfLon,
                       serversWithBandwidth, estimatedUserBandwidth,
                   highBandwidthServers, selectedServers, resultChan, closed,
                       wg, sends, results, NetblastResults>>

DownloadAttempt1(i) == tpc[i] = "dl1" /\ \E ret \in Returns : Download(i, 1, ret)

DownloadAttempt2(i) == tpc[i] = "dl2" /\ \E ret \in Returns : Download(i, 2, ret)

\* An iperf3 invocation of the upload (-R) leg returns.
Upload(i, attempt, ret) ==
    LET step == UploadStep(result[i], selectedServers[i], attempt, ret)
    IN  /\ result' = [result EXCEPT ![i] = step.result]
        /\ tpc' = [tpc EXCEPT ![i] = step.pc]
        /\ calls' = [calls EXCEPT ![i] = Append(@,
                        [leg |-> "upload",
                         mode |-> IF attempt = 1 THEN "full" ELSE "degraded",
                         outcome |-> Outcome(ret, "sum_sent")])]
        /\ UNCHANGED <<pc, err, speedtestDownload, selfLocation, selfLat, selfLon,
                       serversWithBandwidth, estimatedUserBandwidth,
                   highBandwidthServers, selectedServers, resultChan, closed,
                       wg, sends, results, NetblastResults>>

UploadAttempt1(i) == tpc[i] = "ul1" /\ \E ret \in Returns : Upload(i, 1, ret)

UploadAttempt2(i) == tpc[i] = "ul2" /\ \E ret \in Returns : Upload(i, 2, ret)

\* resultChan <- result: blocks while the buffer is full.  The buffer has
\* room for one result per selected server.  A send on a closed channel
\* would panic; the step is disabled there, so a task caught by an early
\* close stays at "send".
Send(i) ==
    /\ tpc[i] = "send"
    /\ Len(resultChan) < Len(selectedServers)
    /\ ~closed
    /\ resultChan' = Append(resultChan, result[i])
    /\ sends' = [sends EXCEPT ![i] = @ + 1]
    /\ tpc' = [tpc EXCEPT ![i] = "return"]
    /\ UNCHANGED <<pc, err, speedtestDownload, selfLocation, selfLat, selfLon,
                   serversWithBandwidth, estimatedUserBandwidth,
                   highBandwidthServers, selectedServers, closed, wg, result,
                   calls, results, NetblastResults>>

\* TaskDone of a goroutine that never calls wg.Done().
TaskDoneWithoutDone(i) ==
    /\ tpc[i] = "return"
    /\ tpc' = [tpc EXCEPT ![i] = "done"]
    /\ UNCHANGED <<pc, err, speedtestDownload, selfLocation, selfLat, selfLon,
                   serversWithBandwidth, estimatedUserBandwidth,
                   highBandwidthServers, selectedServers, resultChan, closed,
                   wg, result, calls, sends, results, NetblastResults>>

\* The deferred wg.Done() as the goroutine returns.
TaskDone(i) ==
    /\ tpc[i] = "return"
    /\ wg' = wg - 1
    /\ tpc' = [tpc EXCEPT ![i] = "done"]
    /\ UNCHANGED <<pc, err, speedtestDownload, selfLocation, selfLat, selfLon,
                   serversWithBandwidth, estimatedUserBandwidth,
                   highBandwidthServers, selectedServers, resultChan, closed,
                   result, calls, sends, results, NetblastResults>>

\* CloseChannel without the wait.
CloseChannelAtOnce ==
    /\ pc = "collect"
    /\ ~closed
    /\ closed' = TRUE
    /\ UNCHANGED <<pc, err, speedtestDownload, selfLocation, selfLat, selfLon,
                   serversWithBandwidth, estimatedUserBandwidth,
                   highBandwidthServers, selectedServers, resultChan, wg, tpc,
                   result, calls, sends, results, NetblastResults>>

\* The closer goroutine: wg.Wait() then close(resultChan).
CloseChannel ==
    /\ pc = "collect"
    /\ ~closed
    /\ WaitReturns(wg)
    /\ closed' = TRUE
    /\ UNCHANGED <<pc, err, speedtestDownload, selfLocation, selfLat, selfLon,
                   serversWithBandwidth, estimatedUserBandwidth,
                   highBandwidthServers, selectedServers, resultChan, wg, tpc,
                   result, calls, sends, results, NetblastResults>>

\* One iteration of "for result := range resultChan".
Receive ==
    /\ pc = "collect"
    /\ Len(resultChan) > 0
    /\ results' = Append(results, Head(resultChan))
    /\ resultChan' = Tail(resultChan)
    /\ UNCHANGED <<pc, err, speedtestDownload, selfLocation, selfLat, selfLon,
                   serversWithBandwidth, estimatedUserBandwidth,
                   highBandwidthServers, selectedServers, closed, wg, tpc, result,
                   calls, sends, NetblastResults>>

\* The range loop ends on the closed, drained channel; the results are
\* sorted, ranked and stored, and the run returns nil.
Finish ==
    /\ pc = "collect"
    /\ closed
    /\ Len(resultChan) = 0
    /\ results' = Aggregate(results)
    /\ NetblastResults' = Aggregate(results)
    /\ pc' = "done"
    /\ UNCHANGED <<err, speedtestDownload, selfLocation, selfLat, selfLon,
                   serversWithBandwidth, estimatedUserBandwidth,
                   highBandwidthServers, selectedServers, resultChan, closed, wg,
                   tpc, result, calls, sends>>

Next ==
    \/ CheckTools
    \/ Locate
    \/ FetchAndLaunch
    \/ \E i \in Tasks : TaskBegin(i)
    \/ \E i \in Tasks : DownloadAttempt1(i)
    \/ \E i \in Tasks : DownloadAttempt2(i)
    \/ \E i \in Tasks : UploadAttempt1(i)
    \/ \E i \in Tasks : UploadAttempt2(i)
    \/ \E i \in Tasks : Send(i)
    \/ \E i \in Tasks : TaskDone(i)
    \/ CloseChannel
    \/ Receive
    \/ Finish

Spec == Init /\ [][Next]_vars

(***************************************************************************)
(* Scoring and selection runs: the run from the catalog fetch up to the    *)
(* launch of the tasks, over catalogs with enough candidates for both      *)
(* tiers and over capacity strings of every shape.                         *)
(***************************************************************************)
MaxCandidates == 11

MaxCapacityLen == 4

\* The entries of the catalog at the positions kept, in catalog order.
Pick(catalog, keep) ==
    LET F[k \in 0..Len(catalog)] ==
            IF k = 0 THEN <<>>
            ELSE IF k \in keep THEN Append(F[k - 1], catalog[k]) ELSE F[k - 1]
    IN  F[Len(catalog)]

\* The feeds drawn: every choice of at most MaxCandidates catalog entries.
SelectionFeeds ==
    {Pick(SelectionCatalog, keep) :
        keep \in {k \in SUBSET (1..Len(SelectionCatalog)) :
                      Cardinality(k) <= MaxCandidates}}

CapacityAlphabet == {"2", "5", "x", ".", "f"}

\* Capacities in the other forms ParseFloat reads: exponents, hexadecimal,
\* underscores, infinities and NaN, and values that the conversion to
\* float64 or the product with 1000 rounds.
CapacityExamples ==
    { <<"2", "x", "1", "0">>, <<"4", "0">>, <<"2", "e", "1">>, <<"1", "E", "2">>,
      <<"1", "e", "-", "3">>, <<"1", "_", "0">>, <<"0", "x", "1", "p", "4">>,
      <<"I", "n", "f">>, <<"-", "i", "n", "f", "i", "n", "i", "t", "y">>,
      <<"N", "a", "N">>,
      <<"1", ".", "0", "0", "5">>, <<"2", ".", "5", "5", "5", "5">>,
      <<"0", ".", "0", "0", "0", "5">>, <<"1", "2", ".", "5", "7">>,
      <<"2", "x", "N", "a", "N">> }

\* Every string of at most MaxCapacityLen characters of the alphabet, and the
\* examples.
CapacityStrings ==
    UNION {[1..n -> CapacityAlphabet] : n \in 0..MaxCapacityLen} \cup CapacityExamples

\* One-entry feeds whose capacity string is any of the strings above.
CapacityFeeds ==
    {<<[SelectionCatalog[1] EXCEPT !.GB_S = g]>> : g \in CapacityStrings}

\* The prior speed-test figures drawn, in Mbps: none measured (-1), zero, and
\* values at, between and beyond the 10000 limit.
SelectionFigures ==
    {F64FromInt(v) : v \in {0 - 1, 0, 1, 940, 10000, 10001, 20000, 30000}}

\* Catalogs of the size of a real one: more than 12 entries, most of them
\* hosts of one site and so at one distance, each with its own provider.
MaxCatalog == 20

\* Entry k of a site: host f01.io, f02.io, ... of provider P01, P02, ...
SiteEntry(k, place, capacity) ==
    [IP_HOST   |-> CommandPrefix
                   \o <<"f", Digits[(k \div 10) + 1], Digits[(k % 10) + 1],
                        ".", "i", "o">>,
     OPTIONS   |-> <<"-", "R">>,
     GB_S      |-> capacity,
     COUNTRY   |-> place[1], SITE |-> place[2], CONTINENT |-> "Europe",
     PROVIDER  |-> <<"P01", "P02", "P03", "P04", "P05", "P06", "P07", "P08", "P09", "P10",
                    "P11", "P12", "P13", "P14", "P15", "P16", "P17", "P18", "P19", "P20",
                    "P21", "P22">>[k]]

\* The entries of one site with the capacities listed, in that order.
SiteEntries(place, capacities) ==
    <<>> \o [k \in 1..Len(capacities) |-> SiteEntry(k, place, capacities[k])]

\* The hosts of one European site at 10 Gbps around one New York host of 1
\* or 10 Gbps or of capacity "NaN", listed last or first; and twelve Paris
\* hosts before two Frankfurt hosts of 40 and 10 Gbps.
SiteFeeds ==
    { IF nearFirst
      THEN <<[SelectionCatalog[1] EXCEPT !.GB_S = near]>>
           \o SiteEntries(place, [k \in 1..(n - 1) |-> <<"1", "0">>])
      ELSE SiteEntries(place, [k \in 1..(n - 1) |-> <<"1", "0">>])
           \o <<[SelectionCatalog[1] EXCEPT !.GB_S = near]>> :
        n \in 13..MaxCatalog,
        place \in {<<"DE", "Frankfurt">>, <<"FR", "Paris">>},
        near \in {<<"1">>, <<"1", "0">>, <<"N", "a", "N">>},
        nearFirst \in BOOLEAN }
    \cup { SiteEntries(<<"FR", "Paris">>, [k \in 1..12 |-> <<"1", "0">>])
           \o << SiteEntry(13, <<"DE", "Frankfurt">>, <<"4", "0">>),
                 SiteEntry(14, <<"DE", "Frankfurt">>, <<"1", "0">>) >> }

\* Catalogs of one site, every host at one distance, in which a capacity
\* "NaN" stands between hosts of one lower capacity and one host of a higher
\* capacity: 1 or 10 Gbps, up to MaxEqual times, then "NaN", then 1.4 or 100
\* Gbps.
MaxEqual == 9

UnorderedFeeds ==
    { SiteEntries(<<"DE", "Frankfurt">>,
                  [k \in 1..n |-> low] \o <<<<"N", "a", "N">>, high>>) :
        n \in 1..MaxEqual,
        low \in {<<"1">>, <<"1", "0">>},
        high \in {<<"1", ".", "4">>, <<"1", "0", "0">>} }

\* The run at the catalog fetch, the tools found and the operator located at
\* 40.0,-75.0.
SelectionInit ==
    /\ pc = "fetch"
    /\ err = "nil"
    /\ speedtestDownload \in SelectionFigures
    /\ selfLocation = [Country |-> "US",
                       Loc |-> <<"4", "0", ".", "0", ",", "-", "7", "5", ".", "0">>]
    /\ selfLat = F64FromInt(40)
    /\ selfLon = F64FromInt(0 - 75)
    /\ serversWithBandwidth = <<>>
    /\ estimatedUserBandwidth = F64FromInt(DefaultUserBandwidth)
    /\ highBandwidthServers = <<>>
    /\ selectedServers = <<>>
    /\ resultChan = <<>>
    /\ closed = FALSE
    /\ wg = 0
    /\ tpc = <<>>
    /\ result = <<>>
    /\ calls = <<>>
    /\ sends = <<>>
    /\ results = <<>>
    /\ NetblastResults = <<>>

\* The catalog fetch, scoring, selection and launch over the selection feeds.
SelectAndLaunch ==
    /\ pc = "fetch"
    /\ \E f \in SelectionFeeds :
          FetchWith([err |-> FALSE, json |-> TRUE, feed |-> f])

\* The same over the capacity feeds.
ParseAndLaunch ==
    /\ pc = "fetch"
    /\ \E f \in CapacityFeeds :
          FetchWith([err |-> FALSE, json |-> TRUE, feed |-> f])

\* Launch commands: with or without the "iperf3 -c " form, with or without a
\* host, and with every shape of port option.
CommandHosts == {<<>>, <<"a", ".", "i", "o">>}

CommandForms == {<<>>, CommandPrefix}

PortOptions ==
    { <<>>,
      <<" ", "-", "p">>,
      <<" ", "-", "p", " ", "9", "2", "0", "0">>,
      <<" ", "-", "p", " ", "5", "2", "0", "1", "-", "5", "2", "1", "0">>,
      <<" ", "-", "p", " ", "0">>,
      <<" ", "-", "p", " ", "7", "0", "0", "0", "0">>,
      <<" ", "-", "p", " ", "9", "9", "9", "9", "9", "9", "9", "9", "9", "9", "9",
        "9", "9", "9", "9", "9", "9", "9", "9">>,
      <<" ", "-", "p", " ", "x">>,
      <<" ", "-", "p", " ", "-", "5">> }

LaunchCommands ==
    {form \o host \o port :
        form \in CommandForms, host \in CommandHosts, port \in PortOptions}

\* One-entry feeds whose launch command is any of the commands above.
CommandFeeds ==
    {<<[SelectionCatalog[1] EXCEPT !.IP_HOST = c]>> : c \in LaunchCommands}

\* Country and site pairs: listed sites, sites the table does not list, a
\* country the table does not list and a record without either.
Places ==
    { <<"US", "New York">>, <<"US", "Nowhere">>, <<"DE", "Berlin">>,
      <<"DE", "Munich">>, <<"FR", "Lyon">>, <<"GB", "Leeds">>, <<"AU", "Perth">>,
      <<"NL", "Amsterdam">>, <<"UK", "London">>, <<"SG", "Singapore">>,
      <<"JP", "Osaka">>, <<"US", "Miami">>, <<"AU", "Sydney">>,
      <<"ZZ", "Nowhere">>, <<"", "">>, <<"", "Paris">> }

\* Feeds of two entries: the second catalog entry after one at any place.
PlaceFeeds ==
    {<<[SelectionCatalog[1] EXCEPT !.COUNTRY = pl[1], !.SITE = pl[2]],
       SelectionCatalog[2]>> : pl \in Places}

\* The same over the command feeds.
ParseCommandAndLaunch ==
    /\ pc = "fetch"
    /\ \E f \in CommandFeeds :
          FetchWith([err |-> FALSE, json |-> TRUE, feed |-> f])

\* The same over the place feeds.
ResolveAndLaunch ==
    /\ pc = "fetch"
    /\ \E f \in PlaceFeeds :
          FetchWith([err |-> FALSE, json |-> TRUE, feed |-> f])

\* The same over the site feeds and the feeds with a NaN capacity.
CatalogAndLaunch ==
    /\ pc = "fetch"
    /\ \E f \in SiteFeeds \cup UnorderedFeeds :
          FetchWith([err |-> FALSE, json |-> TRUE, feed |-> f])

SelectionNext ==
    \/ SelectAndLaunch
    \/ CatalogAndLaunch
    \/ ParseCommandAndLaunch
    \/ ResolveAndLaunch

SelectionSpec == SelectionInit /\ [][SelectionNext]_vars

\* The runs over the place feeds alone.
ResolveSpec == SelectionInit /\ [][ResolveAndLaunch]_vars

\* The runs over the capacity feeds, after a speed test that measured nothing.
CapacityInit == SelectionInit /\ speedtestDownload = F64FromInt(0 - 1)

CapacitySpec == CapacityInit /\ [][ParseAndLaunch]_vars

(***************************************************************************)
(* Properties                                                              *)
(***************************************************************************)
Ran == pc = "done" /\ err = "nil"

Finished(i) == tpc[i] \in {"send", "return", "done"}

UploadCalled(i) == \E k \in 1..Len(calls[i]) : calls[i][k].leg = "upload"

AlwaysFailed(i) ==
    /\ Len(calls[i]) > 0
    /\ \A k \in 1..Len(calls[i]) : calls[i][k].outcome = "fail"

\* A stored row carries the measurement of the task's result.
SameMeasurement(row, res) == [row EXCEPT !.Rank = res.Rank] = res

RowsOf(i) == {k \in 1..Len(NetblastResults) :
                 SameMeasurement(NetblastResults[k], result[i])}

Emitted == {resultChan[k] : k \in 1..Len(resultChan)}
           \cup {results[k] : k \in 1..Len(results)}
           \cup {NetblastResults[k] : k \in 1..Len(NetblastResults)}

\* C1: for fixed per-server measurements the ranked list is the same whatever
\* the order in which the tasks complete: it is the stable descending sort of
\* the measurements taken in selection order, ties included.
C1_RankingIndependentOfCompletionOrder ==
    Ran => NetblastResults =
               Aggregate([i \in 1..Len(selectedServers) |-> result[i]])

\* C2: every task sends exactly one result on every path, and the collected
\* list holds exactly one row per selected server, failed servers included.
C2_OneResultPerTask ==
    /\ \A i \in Tasks : sends[i] = IF tpc[i] \in {"return", "done"} THEN 1 ELSE 0
    /\ Ran => /\ Len(NetblastResults) = Len(selectedServers)
              /\ \A i \in Tasks : Cardinality(RowsOf(i)) = 1

\* A run of two servers: one that failed the download leg and stays
\* unmeasured, one measured in both directions, both stored.
C2_Witness ==
    /\ Ran
    /\ Len(NetblastResults) = 2
    /\ \E i \in Tasks : AlwaysFailed(i) /\ result[i].DownloadMbps = Unmeasured
    /\ \E i \in Tasks : result[i].TestCompleted

\* C3: ranks are assigned and sysInfo.NetblastResults is written only after
\* every launched task has reported; while one task has not sent, the run
\* is still collecting and nothing is stored.
C3_FanInJoin ==
    \A i \in Tasks : sends[i] = 0 => (pc = "collect" /\ NetblastResults = <<>>)

\* The collector holds a result already while another task has not reported.
C3_Witness ==
    /\ pc = "collect"
    /\ Len(results) >= 1
    /\ \E i \in Tasks : sends[i] = 0 /\ tpc[i] \in {"dl2", "ul2"}

\* C4: a server whose invocations all fail yields -1, -1, not completed; the
\* run still returns nil and stores every server's own measurement.
C4_FailedServerIsLocal ==
    \A i \in Tasks :
        (AlwaysFailed(i) /\ Finished(i)) =>
            /\ result[i].DownloadMbps = Unmeasured
            /\ result[i].UploadMbps = Unmeasured
            /\ ~result[i].TestCompleted
            /\ pc = "done" =>
                  /\ err = "nil"
                  /\ \A j \in Tasks : Cardinality(RowsOf(j)) = 1

\* A stored run with an always-failing server next to a completed one.
C4_Witness ==
    /\ Ran
    /\ \E i \in Tasks : AlwaysFailed(i) /\ Len(calls[i]) = 2
    /\ \E j \in Tasks : result[j].TestCompleted /\ Cardinality(RowsOf(j)) = 1

\* C5: a first download attempt that ends in a process failure or in a
\* malformed response is followed by exactly one degraded retry before the
\* download leg is given up.
C5_RetryAfterFailureOrMalformed ==
    \A i \in Tasks :
        (/\ Len(calls[i]) >= 1
         /\ calls[i][1].outcome \in {"fail", "malformed"}
         /\ tpc[i] # "dl2") =>
            /\ Len(calls[i]) >= 2
            /\ calls[i][2].leg = "download"
            /\ calls[i][2].mode = "degraded"

\* C6: the upload test is attempted if and only if the download leg gave a
\* positive throughput and the options offer -R.
C6_UploadIffDownloadAndReverse ==
    \A i \in Tasks :
        /\ (tpc[i] \in {"ul1", "ul2"} \/ UploadCalled(i)) =>
               /\ Positive(result[i].DownloadMbps)
               /\ SupportsUpload(selectedServers[i].Options)
        /\ Finished(i) =>
               (UploadCalled(i) <=>
                   /\ Positive(result[i].DownloadMbps)
                   /\ SupportsUpload(selectedServers[i].Options))

\* One finished task ran its upload leg, another measured a positive
\* download without -R and a third reported a download of zero: neither of
\* the latter two ran an upload.
C6_Witness ==
    /\ \E i \in Tasks : Finished(i) /\ UploadCalled(i)
    /\ \E i \in Tasks : /\ Finished(i)
                        /\ Positive(result[i].DownloadMbps)
                        /\ ~SupportsUpload(selectedServers[i].Options)
                        /\ ~UploadCalled(i)

\* C7: in every emitted result, completed is true exactly when both
\* throughputs are positive.
C7_CompletedIffBothPositive ==
    /\ \A r \in Emitted :
          r.TestCompleted <=> (Positive(r.DownloadMbps) /\ Positive(r.UploadMbps))
    /\ \A i \in Tasks : Finished(i) =>
          (result[i].TestCompleted <=>
              (Positive(result[i].DownloadMbps) /\ Positive(result[i].UploadMbps)))

\* Stored rows: one completed, one with a positive download whose upload
\* was not measured.
C7_Witness ==
    /\ Ran
    /\ \E r \in Emitted : r.TestCompleted
    /\ \E r \in Emitted : Positive(r.DownloadMbps) /\ ~Positive(r.UploadMbps) /\ ~r.TestCompleted

\* C8: the stored list is non-increasing in downloadMbps and no unmeasured
\* row precedes a measured one.
C8_SortedByDownload ==
    Ran => \A k, l \in 1..Len(NetblastResults) :
               k < l =>
                  /\ F64LessEq(NetblastResults[l].DownloadMbps,
                               NetblastResults[k].DownloadMbps)
                  /\ NetblastResults[k].DownloadMbps = Unmeasured
                        => NetblastResults[l].DownloadMbps = Unmeasured

\* Two stored rows with different positive downloads, the second task's
\* first.
C8_Witness ==
    /\ Ran
    /\ Len(NetblastResults) = 2
    /\ F64Less(NetblastResults[2].DownloadMbps, NetblastResults[1].DownloadMbps)
    /\ Positive(NetblastResults[2].DownloadMbps)
    /\ SameMeasurement(NetblastResults[1], result[2])

\* C9: after aggregation each row's rank is its 1-based position, so the
\* ranks are exactly 1..N; the rank given at launch does not survive.
C9_RanksArePositions ==
    Ran => /\ \A k \in 1..Len(NetblastResults) : NetblastResults[k].Rank = k
           /\ {NetblastResults[k].Rank : k \in 1..Len(NetblastResults)}
                 = 1..Len(selectedServers)

\* A stored row whose position differs from its task's launch rank.
C9_Witness ==
    /\ Ran
    /\ \E i \in Tasks : \E k \in RowsOf(i) : k # i /\ result[i].Rank = i

\* The geolocation answer has a country and a "lat,lon" string of two
\* parsable numbers.
GeoComplete(loc) ==
    LET locParts == Split(loc.Loc, ",")
    IN  /\ loc.Country # ""
        /\ Len(locParts) = 2
        /\ ~ParseFloat(locParts[1]).err
        /\ ~ParseFloat(locParts[2]).err

\* C10: when the geolocation answer lacks a parsable latitude, longitude or
\* country the run returns an error before any candidate is scored or any
\* task is launched.
C10_FailsClosedOnGeolocation ==
    (pc \in {"fetch", "collect", "done"} /\ ~GeoComplete(selfLocation)) =>
        /\ pc = "done"
        /\ err # "nil"
        /\ serversWithBandwidth = <<>>
        /\ Tasks = {}

(***************************************************************************)
(* Aborted and empty runs                                                  *)
(***************************************************************************)
LookupReasons == {"error getting self location", "error parsing self location"}

CatalogReasons == {"error fetching iperf3 server list",
                   "error parsing iperf3 server list"}

\* The run has returned an error of the given kind without any trace of a
\* launch: no task, nothing scored or selected, nothing on the channel and
\* the stored list still the empty list it was set to.
AbortedWith(reasons) ==
    /\ pc = "done"
    /\ err \in reasons
    /\ Tasks = {}
    /\ serversWithBandwidth = <<>>
    /\ selectedServers = <<>>
    /\ resultChan = <<>>
    /\ NetblastResults = <<>>

Failed(answer) == answer.err \/ ~answer.json

\* A run that has returned an error has no task and no result.
ErrorLeavesNothing == pc = "done" /\ Tasks = {} /\ NetblastResults = <<>>

\* C11: when the ipinfo.io call fails or its body cannot be decoded, and when
\* the catalog fetch fails or its body cannot be decoded, the run returns an
\* error that names the reason, launches no task and leaves the stored result
\* list empty; a run that has returned an error never has a task or a result.
C11_LookupOrCatalogFailureAborts ==
    /\ err = "nil" \/ ErrorLeavesNothing
    /\ [][ /\ (err # "nil" => ErrorLeavesNothing)'
           /\ \A answer \in GeoAnswers :
                Failed(answer) /\ LocateWith(answer) => AbortedWith(LookupReasons)'
           /\ \A answer \in CatalogAnswers :
                Failed(answer) /\ FetchWith(answer) => AbortedWith(CatalogReasons)'
         ]_vars

C11_Witness ==
    /\ AbortedWith(LookupReasons)
    /\ err = "error parsing self location"

\* The countries runNetblastTests has coordinates for.
ResolvableCountries == {"US", "UK", "GB", "FR", "DE", "NL", "SG", "JP", "AU"}

Unusable(feed) == \A k \in 1..Len(feed) : feed[k].COUNTRY \notin ResolvableCountries

\* The run after a catalog without a usable candidate: nothing scored, nothing
\* selected, no task.
NothingToTest ==
    /\ err = "nil"
    /\ serversWithBandwidth = <<>>
    /\ selectedServers = <<>>
    /\ Tasks = {}

\* A run collecting from no task has nothing to receive and is not blocked:
\* the closer or the return can take its step.
EmptyRunGoesOn ==
    pc = "collect" /\ Tasks = {} =>
        /\ NothingToTest
        /\ resultChan = <<>> /\ results = <<>>
        /\ ENABLED (CloseChannel \/ Finish)

EmptyRunStoresNothing ==
    pc = "done" /\ err = "nil" /\ Tasks = {} => NetblastResults = <<>>

\* C12: a decoded catalog that is empty or whose every record has a country
\* without coordinates gives an empty selection and no task; the run is then
\* never blocked (the closer or the return is enabled) and ends with an empty
\* result list and no error.
C12_NoUsableCandidate ==
    /\ EmptyRunGoesOn /\ EmptyRunStoresNothing
    /\ [][ /\ \A answer \in CatalogAnswers :
                ~Failed(answer) /\ Unusable(answer.feed) /\ FetchWith(answer)
                   => (pc = "collect" /\ NothingToTest)'
           /\ EmptyRunGoesOn'
           /\ EmptyRunStoresNothing' ]_vars

C12_Witness ==
    /\ pc = "done"
    /\ NothingToTest
    /\ closed
    /\ NetblastResults = <<>>

(***************************************************************************)
(* Selection                                                               *)
(***************************************************************************)
Launched == pc = "collect"

ProvidersOf(list) == {list[k].Provider : k \in 1..Len(list)}

EndpointsOf(list) == {<<list[k].Host, list[k].Port>> : k \in 1..Len(list)}

DistinctProviders(list) == Cardinality(ProvidersOf(list)) = Len(list)

DistinctEndpoints(list) == Cardinality(EndpointsOf(list)) = Len(list)

\* C13: whatever the scored list, the selection has at most 5 servers, and one
\* task per selected server is started, so at most 5 tasks run at a time.
C13_AtMostFiveSelected ==
    /\ Len(selectedServers) <= 5
    /\ Tasks = 1..Len(selectedServers)
    /\ Cardinality({i \in Tasks : tpc[i] # "done"}) <= 5

C13_Witness ==
    /\ Launched
    /\ Len(highBandwidthServers) > 5
    /\ Cardinality(EndpointsOf(highBandwidthServers)) > 5
    /\ Len(selectedServers) = 5
    /\ Cardinality(Tasks) = 5

\* C14 as stated: a scored list of at least 5 candidates with pairwise
\* distinct providers gives a selection of 5 servers of 5 distinct providers.
C14_FiveDistinctProviders ==
    Launched /\ Len(serversWithBandwidth) >= 5
             /\ DistinctProviders(serversWithBandwidth)
       => Len(selectedServers) = 5 /\ DistinctProviders(selectedServers)

\* C14: a scored list of at least 5 candidates with pairwise distinct
\* providers and pairwise distinct (host, port) pairs gives a selection of 5
\* servers of 5 distinct providers.
C14_FiveDistinctProvidersOfDistinctServers ==
    Launched /\ Len(serversWithBandwidth) >= 5
             /\ DistinctProviders(serversWithBandwidth)
             /\ DistinctEndpoints(serversWithBandwidth)
       => Len(selectedServers) = 5 /\ DistinctProviders(selectedServers)

C14_Witness ==
    /\ Launched
    /\ Len(serversWithBandwidth) > 5
    /\ DistinctProviders(serversWithBandwidth)
    /\ DistinctEndpoints(serversWithBandwidth)
    /\ Len(highBandwidthServers) = Len(serversWithBandwidth)
    /\ Len(selectedServers) = 5
    /\ DistinctProviders(selectedServers)

\* C15 as stated: the selection has min(5, size of the pool) entries.
C15_FillsToPoolSize ==
    Launched => Len(selectedServers) = Min(5, Len(highBandwidthServers))

\* C15: the selection has min(5, number of distinct (host, port) pairs of the
\* pool) entries: fewer than 5 only when the pool holds fewer than 5 distinct
\* servers.
C15_FillsToDistinctServers ==
    Launched =>
        Len(selectedServers) = Min(5, Cardinality(EndpointsOf(highBandwidthServers)))

\* The fill pass has acted: a selected server whose provider and city are
\* both those of a server selected before it.
C15_Witness ==
    /\ Launched
    /\ Len(selectedServers) = 5
    /\ \E i, j \in 1..Len(selectedServers) :
          /\ i < j
          /\ selectedServers[i].Provider = selectedServers[j].Provider
          /\ LocationKey(selectedServers[i]) = LocationKey(selectedServers[j])

\* C16: a non-empty pool gives a selection whose first entry is the
\* highest-scoring candidate of the pool: it scores at least as high as every
\* candidate of the pool.
C16_BestCandidateFirst ==
    Launched /\ Len(highBandwidthServers) > 0 =>
        /\ Len(selectedServers) > 0
        /\ \A k \in 1..Len(highBandwidthServers) :
              F64LessEq(highBandwidthServers[k].Score, selectedServers[1].Score)

\* 2 * capacity >= 3 * estimate, without rounding; the estimate is a
\* positive number.
AtLeastOneAndAHalf(capacity, estimate) ==
    IF capacity.k # "num" THEN capacity.k = "inf" /\ ~capacity.neg
    ELSE IF capacity.neg \/ capacity.m = <<>> THEN FALSE
    ELSE IF capacity.e + 1 >= estimate.e
    THEN NatCmp(NatShl(capacity.m, capacity.e + 1 - estimate.e),
                NatMulSmall(estimate.m, 3)) >= 0
    ELSE NatCmp(capacity.m,
                NatShl(NatMulSmall(estimate.m, 3), estimate.e - capacity.e - 1)) >= 0

\* The scored candidates whose capacity is at least 1.5 times the estimate.
Passing ==
    {k \in 1..Len(serversWithBandwidth) :
        AtLeastOneAndAHalf(serversWithBandwidth[k].BandwidthMbps,
                           estimatedUserBandwidth)}

AboveThreshold(list) ==
    \A k \in 1..Len(list) :
        AtLeastOneAndAHalf(list[k].BandwidthMbps, estimatedUserBandwidth)

\* C17: when at least 5 scored candidates have a capacity of at least 1.5
\* times the estimate, the pool is exactly those candidates and every selected
\* server is one of them; when fewer than 5 do, the pool is the top (at most
\* 10) candidates by score of the scored list, threshold dropped: the head of
\* the list, every candidate in it scoring at least as high as every
\* candidate left out.
C17_StrictThenFallbackTier ==
    Launched =>
        IF Cardinality(Passing) >= 5
        THEN /\ AboveThreshold(selectedServers)
             /\ AboveThreshold(highBandwidthServers)
             /\ Len(highBandwidthServers) = Cardinality(Passing)
        ELSE /\ Len(highBandwidthServers) = Min(10, Len(serversWithBandwidth))
             /\ \A k \in 1..Len(highBandwidthServers) :
                   /\ highBandwidthServers[k] = serversWithBandwidth[k]
                   /\ \A j \in (Len(highBandwidthServers) + 1)..Len(serversWithBandwidth) :
                         F64LessEq(serversWithBandwidth[j].Score,
                                   highBandwidthServers[k].Score)

(***************************************************************************)
(* Scoring, estimate and capacity                                          *)
(***************************************************************************)
TenThousand == F64FromInt(10000)

TwentyThousand == F64FromInt(20000)

TwentyFiveThousand == F64FromInt(25000)

HundredThousand == F64FromInt(100000)

\* The sum of two integers, each a sign and a magnitude.
SignedSum(xneg, x, yneg, y) ==
    IF xneg = yneg THEN [neg |-> xneg, n |-> NatAdd(x, y)]
    ELSE IF NatCmp(x, y) >= 0 THEN [neg |-> xneg, n |-> NatSub(x, y)]
    ELSE [neg |-> yneg, n |-> NatSub(y, x)]

\* 10000 * score - (8 * mbps - 10 * km) in units of 2^lo, for numbers score
\* and mbps whose exponents are lo or more, lo <= 0.
ScoreGap(score, mbps, km, lo) ==
    CHOOSE r \in
      { SignedSum(part.neg, part.n, FALSE, NatShl(NatFromInt(10 * km), 0 - lo)) :
          part \in { SignedSum(score.neg,
                               NatShl(NatMul(score.m, NatFromInt(10000)), score.e - lo),
                               ~mbps.neg,
                               NatShl(NatMulSmall(mbps.m, 8), mbps.e - lo)) } } : TRUE

\* The score is 0.8 x min(100, Gbps) - 0.2 x min(100, km / 200) to nine
\* decimal places, from the capacity in Mbps and the distance in km: 10000
\* times the score is within 1/100000 of 8 x min(100000, Mbps) minus
\* min(200000, 10 x km).
StatedScore(score, mbps, km) ==
    IF mbps.k = "nan" THEN score.k = "nan"
    ELSE IF mbps.k = "inf" /\ mbps.neg THEN score.k = "inf" /\ score.neg
    ELSE /\ score.k = "num"
         /\ \E capped \in {IF F64Less(HundredThousand, mbps) THEN HundredThousand
                            ELSE mbps} :
            \E lo \in {Min(0, Min(score.e, capped.e))} :
              NatCmp(NatMul(ScoreGap(score, capped, Min(20000, km), lo).n,
                            NatFromInt(100000)),
                     NatShl(<<1>>, 0 - lo)) < 0

\* A: 10 Gbps within 200 km.  B: 100 Gbps at 10000 km or more.
NearAndSmall(server) ==
    F64Eq(server.BandwidthMbps, TenThousand) /\ server.Distance <= 200

FarAndLarge(server) ==
    F64Eq(server.BandwidthMbps, HundredThousand) /\ server.Distance >= 10000

\* On every build a 10 Gbps server at 100 km scores strictly lower than a 100
\* Gbps server at 10000 km.
TenNearBelowHundredFar ==
    \A build \in Builds :
        F64Less(Score(build, F64FromInt(10), 100), Score(build, F64FromInt(100), 10000))

\* C18: every scored candidate has score 0.8 x min(100, Gbps) - 0.2 x
\* min(100, km / 200) and the scored list is in descending score order (no
\* candidate scores lower than one listed after it); a 10
\* Gbps server at 100 km scores strictly lower than a 100 Gbps server at 10000
\* km, and when a near 10 Gbps and a far 100 Gbps server are the only two
\* candidates both are selected, the far one first.
C18_ScoreFavoursCapacity ==
    /\ \A k \in 1..Len(serversWithBandwidth) :
          StatedScore(serversWithBandwidth[k].Score,
                      serversWithBandwidth[k].BandwidthMbps,
                      serversWithBandwidth[k].Distance)
    /\ \A j, k \in 1..Len(serversWithBandwidth) :
          j < k => F64LessEq(serversWithBandwidth[k].Score,
                             serversWithBandwidth[j].Score)
    /\ TenNearBelowHundredFar
    /\ \A a, b \in 1..Len(serversWithBandwidth) :
          /\ Len(serversWithBandwidth) = 2
          /\ NearAndSmall(serversWithBandwidth[a])
          /\ FarAndLarge(serversWithBandwidth[b])
          => /\ F64Less(serversWithBandwidth[a].Score, serversWithBandwidth[b].Score)
             /\ selectedServers = <<serversWithBandwidth[b], serversWithBandwidth[a]>>

\* The estimate as stated, from the prior speed-test figure m in Mbps.
StatedEstimate(m) ==
    IF ~Positive(m) THEN Thousand
    ELSE IF F64LessEq(m, TenThousand) THEN m
    ELSE TwentyFiveThousand

\* C19: the estimate used for filtering is 1000 Mbps when the prior figure is
\* absent, zero or negative, the figure itself when it is above 0 and at most
\* 10000, and 25000 when it is above 10000; so the threshold of 1.5 times the
\* estimate is positive and the estimate is never strictly between 10000 and
\* 25000.
C19_EstimateFromSpeedtest ==
    Launched =>
        /\ estimatedUserBandwidth = StatedEstimate(speedtestDownload)
        /\ Positive(estimatedUserBandwidth)
        /\ ~(/\ F64Less(TenThousand, estimatedUserBandwidth)
             /\ F64Less(estimatedUserBandwidth, TwentyFiveThousand))

C19_Witness ==
    /\ Launched
    /\ speedtestDownload = TwentyThousand
    /\ estimatedUserBandwidth = TwentyFiveThousand
    /\ Len(serversWithBandwidth) >= 5
    /\ Cardinality(Passing) < 5

\* Where the string has an "x".
Crosses(s) == {i \in 1..Len(s) : s[i] = "x"}

\* Digits with at most one point among them, one digit at least.
Fraction(s) ==
    /\ \A i \in 1..Len(s) : IsDigit(s[i]) \/ s[i] = "."
    /\ Cardinality({i \in 1..Len(s) : s[i] = "."}) <= 1
    /\ \E i \in 1..Len(s) : IsDigit(s[i])

\* Where the string has an exponent mark.
Marks(s) == {i \in 1..Len(s) : s[i] \in {"e", "E"}}

\* A number in decimal notation: an optional sign, a fraction, and possibly
\* an exponent of an optional sign and digits.
Numeric(s) ==
    IF Marks(s) = {} THEN Fraction(Unsigned(s))
    ELSE /\ Cardinality(Marks(s)) = 1
         /\ \E at \in Marks(s) :
               /\ Fraction(Unsigned(SubSeq(s, 1, at - 1)))
               /\ Len(Unsigned(SubSeq(s, at + 1, Len(s)))) > 0
               /\ AllDigits(Unsigned(SubSeq(s, at + 1, Len(s))))

\* The capacity in Mbps as stated: "NxM" with numeric N and M is N x M Gbps,
\* a numeric string is its value, every other string is 1 Gbps.
StatedCapacity(s) ==
    IF Cardinality(Crosses(s)) = 1
    THEN LET x == CHOOSE i \in Crosses(s) : TRUE
             N == SubSeq(s, 1, x - 1)
             M == SubSeq(s, x + 1, Len(s))
         IN  IF Numeric(N) /\ Numeric(M)
             THEN F64Mul(F64Mul(ParseFloat(N).val, ParseFloat(M).val), Thousand)
             ELSE Thousand
    ELSE IF Crosses(s) = {} /\ Numeric(s) THEN F64Mul(ParseFloat(s).val, Thousand)
    ELSE Thousand

CapacityOf(s) ==
    {serversWithBandwidth[k].BandwidthMbps :
        k \in {i \in 1..Len(serversWithBandwidth) :
                  serversWithBandwidth[i].Bandwidth = s}}

\* C20: the capacity of every scored candidate is N x M for a string "NxM"
\* with numeric N and M ("2x10" is 20 Gbps), the value of a numeric string
\* ("40" is 40 Gbps) and 1 Gbps for every other string (empty, not a number,
\* more than one "x", a factor that is not a number); whatever the strings,
\* the fetch does not end the run with an error.
C20_CapacityParsing ==
    /\ err = "nil"
    /\ pc # "done"
    /\ Launched =>
         /\ \A k \in 1..Len(serversWithBandwidth) :
               serversWithBandwidth[k].BandwidthMbps =
                   StatedCapacity(serversWithBandwidth[k].Bandwidth)
         /\ CapacityOf(<<"2", "x", "1", "0">>) \subseteq {TwentyThousand}
         /\ CapacityOf(<<"4", "0">>) \subseteq {F64FromInt(40000)}
         /\ CapacityOf(<<"2", ".", "5">>) \subseteq {F64FromInt(2500)}
         /\ CapacityOf(<<>>) \subseteq {Thousand}
         /\ CapacityOf(<<"f">>) \subseteq {Thousand}
         /\ CapacityOf(<<"x">>) \subseteq {Thousand}
         /\ CapacityOf(<<"2", "x", "5", "x">>) \subseteq {Thousand}
         /\ CapacityOf(<<"2", "x", "f">>) \subseteq {Thousand}
         /\ CapacityOf(<<"2", "x">>) \subseteq {Thousand}

(***************************************************************************)
(* Catalog ingestion                                                       *)
(***************************************************************************)
ValidEndpoint(server) ==
    /\ server.Host # <<>>
    /\ 1 <= server.Port /\ server.Port <= 65535

\* C21: every scored and every selected server has a non-empty host and a
\* port within 1..65535, whatever the launch command of its catalog entry.
C21_HostAndPortValid ==
    /\ \A k \in 1..Len(serversWithBandwidth) : ValidEndpoint(serversWithBandwidth[k])
    /\ \A k \in 1..Len(selectedServers) : ValidEndpoint(selectedServers[k])

\* The sites the table lists by name, per country.
ListedSites(country) ==
    CASE country = "US" -> {"New York", "Los Angeles", "Miami", "Chicago", "Dallas",
                            "San Francisco", "Seattle", "Houston"}
      [] country \in {"UK", "GB"} -> {"London"}
      [] country = "FR" -> {"Paris"}
      [] country = "DE" -> {"Frankfurt", "Berlin"}
      [] country = "AU" -> {"Sydney"}
      [] OTHER -> {}

\* The centre of each country, 1/10000 degree.
Centroid(country) ==
    CASE country = "US" -> <<370902, -957129>>
      [] country \in {"UK", "GB"} -> <<553781, -34360>>
      [] country = "FR" -> <<462276, 22137>>
      [] country = "DE" -> <<511657, 104515>>
      [] country = "NL" -> <<523676, 49041>>
      [] country = "SG" -> <<13521, 1038198>>
      [] country = "JP" -> <<356762, 1396503>>
      [] country = "AU" -> <<-252744, 1337751>>

EntriesAt(list, country, site) ==
    {k \in 1..Len(list) : list[k].Country = country /\ list[k].City = site}

\* Every listed server is of a country of the table and away from (0, 0).
Resolved(list) ==
    \A k \in 1..Len(list) :
        /\ list[k].Country \in ResolvableCountries
        /\ <<list[k].Lat, list[k].Lon>> # <<0, 0>>

\* The run after the fetch of a two-entry feed whose first entry is at the
\* given place: no error; an unknown country leaves the second entry alone in
\* the scored list and the selection; a known country is scored and selected,
\* at the country's centre when the site is not a listed one.
AfterPlace(country, site) ==
    /\ pc = "collect"
    /\ err = "nil"
    /\ IF country \in ResolvableCountries
       THEN /\ Len(serversWithBandwidth) = 2
            /\ Len(selectedServers) = 2
            /\ Cardinality(Tasks) = 2
            /\ \E k \in EntriesAt(serversWithBandwidth, country, site) :
                  site \notin ListedSites(country) =>
                      <<serversWithBandwidth[k].Lat, serversWithBandwidth[k].Lon>>
                          = Centroid(country)
            /\ EntriesAt(selectedServers, country, site) # {}
       ELSE /\ Len(serversWithBandwidth) = 1
            /\ Len(selectedServers) = 1
            /\ Cardinality(Tasks) = 1
            /\ EntriesAt(serversWithBandwidth, country, site) = {}
            /\ EntriesAt(selectedServers, country, site) = {}

\* C22: a catalog entry whose country is not in the coordinate table is
\* passed over without an error: it is not in the scored list nor in the
\* selection, and no scored server is of an unknown country or at (0, 0); an
\* entry of a known country whose site is not listed is kept at the centre of
\* the country.
C22_UnknownCountryDropped ==
    /\ Resolved(serversWithBandwidth) /\ Resolved(selectedServers)
    /\ [][ /\ Resolved(serversWithBandwidth)' /\ Resolved(selectedServers)'
           /\ err' = "nil"
           /\ \A f \in PlaceFeeds :
                 FetchWith([err |-> FALSE, json |-> TRUE, feed |-> f])
                    => AfterPlace(f[1].COUNTRY, f[1].SITE)' ]_vars

\* An entry of an unlisted site kept at the centre of Germany.
C22_Witness ==
    /\ pc = "collect"
    /\ \E k \in EntriesAt(selectedServers, "DE", "Munich") :
          <<selectedServers[k].Lat, selectedServers[k].Lon>> = Centroid("DE")

\* The great-circle distance in km rounded to the nearest integer.
RoundedKm(meters) == (meters + 500) \div 1000

\* C23: the distance of every scored server is the great-circle distance from
\* the operator rounded to the nearest kilometre (a fraction of 0.5 or more
\* rounds up).
C23_DistanceRounded ==
    \A k \in 1..Len(serversWithBandwidth) :
        serversWithBandwidth[k].Distance =
            RoundedKm(HaversineMeters(selfLat, selfLon,
                                      serversWithBandwidth[k].Lat,
                                      serversWithBandwidth[k].Lon))

(***************************************************************************)
(* The legs of a task                                                      *)
(***************************************************************************)
LastCall(i) == calls[i][Len(calls[i])]

\* The task's last invocation so far was an upload that failed or gave
\* output without an upload figure.
UploadLost(i) ==
    /\ Len(calls[i]) > 0
    /\ LastCall(i).leg = "upload"
    /\ LastCall(i).outcome \in {"fail", "malformed"}

\* C24: once the upload leg of a task has failed or returned malformed
\* output, retry included, the task's result keeps the positive download
\* figure, has upload -1 and is not completed, and that is the result it
\* emits.
C24_FailedUploadKeepsDownload ==
    \A i \in Tasks :
        UploadLost(i) =>
            /\ Positive(result[i].DownloadMbps)
            /\ result[i].UploadMbps = Unmeasured
            /\ ~result[i].TestCompleted
            /\ sends[i] = 1 => \E row \in Emitted : SameMeasurement(row, result[i])

C24_Witness ==
    /\ Ran
    /\ \E i \in Tasks :
          /\ UploadLost(i)
          /\ Len(calls[i]) >= 3
          /\ calls[i][Len(calls[i]) - 1].leg = "upload"
          /\ \E k \in 1..Len(NetblastResults) :
                /\ SameMeasurement(NetblastResults[k], result[i])
                /\ Positive(NetblastResults[k].DownloadMbps)
                /\ NetblastResults[k].UploadMbps = Unmeasured

\* The place of a task state in Pending, DownloadAttempt1, DownloadAttempt2,
\* UploadAttempt1, UploadAttempt2, then the send and the return (Done).
Stage(at) ==
    CASE at = "pending" -> 0
      [] at = "dl1"     -> 1
      [] at = "dl2"     -> 2
      [] at = "ul1"     -> 3
      [] at = "ul2"     -> 4
      [] at = "send"    -> 5
      [] at = "return"  -> 6
      [] at = "done"    -> 7

\* Task i leaves a download attempt in this step.
LeavesDownload(i) == tpc[i] \in {"dl1", "dl2"} /\ tpc'[i] # tpc[i]

\* A download attempt of task i has just returned a positive figure from a
\* server that offers the reverse mode.
GoodDownload(i) ==
    /\ LastCall(i).outcome = "ok"
    /\ Positive(result[i].DownloadMbps)
    /\ SupportsUpload(selectedServers[i].Options)

\* The steps of the legs: a task only moves forward; it leaves a download
\* attempt for the upload leg exactly when the attempt, first or retry, gave a
\* positive figure and the server offers the reverse mode; the retry follows
\* the first download attempt only and the upload retry the first upload
\* attempt only.
LegsInOrder ==
    \A i \in Tasks :
        /\ Stage(tpc'[i]) >= Stage(tpc[i])
        /\ tpc'[i] = "dl2" /\ tpc[i] # "dl2" => tpc[i] = "dl1"
        /\ tpc'[i] = "ul2" /\ tpc[i] # "ul2" => tpc[i] = "ul1"
        /\ tpc'[i] = "ul1" /\ tpc[i] # "ul1" => tpc[i] \in {"dl1", "dl2"}
        /\ LeavesDownload(i) /\ tpc'[i] # "dl2" =>
               (tpc'[i] = "ul1" <=> GoodDownload(i)')
        /\ LeavesDownload(i) /\ tpc'[i] = "dl2" => LastCall(i)'.outcome = "fail"

\* C25 as stated: the legs are taken in order and every task leaves Pending
\* for the first download attempt.
C25_TaskStateMachine ==
    [][ /\ LegsInOrder
        /\ \A i \in Tasks : tpc[i] = "pending" /\ tpc'[i] # "pending"
                                 => tpc'[i] = "dl1" ]_vars

\* C25: the legs are taken in order (a successful retry with a positive
\* figure goes on to the upload leg as a successful first attempt does, and no
\* task goes back); a task leaves Pending for the first download attempt
\* when its launch command has at least 3 tokens and for the send, without
\* any attempt, when it has fewer.
C25_TaskStateMachineOfValidCommands ==
    [][ /\ LegsInOrder
        /\ \A i \in Tasks : tpc[i] = "pending" /\ tpc'[i] # "pending"
               => tpc'[i] = IF Len(Split(selectedServers[i].Command, " ")) >= 3
                            THEN "dl1" ELSE "send" ]_vars

\* A task done after a failed first download, a successful retry and an
\* upload.
C25_Witness ==
    \E i \in Tasks :
        /\ tpc[i] = "done"
        /\ Len(calls[i]) >= 3
        /\ calls[i][1] = [leg |-> "download", mode |-> "full", outcome |-> "fail"]
        /\ calls[i][2] = [leg |-> "download", mode |-> "degraded", outcome |-> "ok"]
        /\ calls[i][3].leg = "upload"
        /\ Positive(result[i].DownloadMbps)

(***************************************************************************)
(* The diversity and fill passes                                           *)
(***************************************************************************)
\* The selection before its j-th entry.
Before(j) == SubSeq(selectedServers, 1, j - 1)

PlacesOf(list) == {<<list[k].City, list[k].Country>> : k \in 1..Len(list)}

\* Both the provider and the (city, country) of the candidate are those of
\* listed servers.
BothRepresented(list, c) ==
    /\ c.Provider \in ProvidersOf(list)
    /\ <<c.City, c.Country>> \in PlacesOf(list)

Listed(list, c) == \E k \in 1..Len(list) : list[k] = c

\* The position of a selected server in the pool.
PoolPosition(c) ==
    CHOOSE p \in 1..Len(highBandwidthServers) : highBandwidthServers[p] = c

\* The j-th selected server brought neither a new provider nor a new place:
\* it is one the diversity pass passed over, admitted by the fill pass.
Filled(j) == j > 1 /\ BothRepresented(Before(j), selectedServers[j])

\* The order of the selection: every selected server is of the pool; the
\* servers that brought a provider or a place come first, in pool order; the
\* filled ones follow, in pool order.
PassesInPoolOrder ==
    /\ \A j \in 1..Len(selectedServers) :
          Listed(highBandwidthServers, selectedServers[j])
    /\ \A j, k \in 1..Len(selectedServers) :
          j < k =>
             /\ Filled(j) => Filled(k)
             /\ Filled(j) = Filled(k) =>
                    PoolPosition(selectedServers[j]) < PoolPosition(selectedServers[k])

\* The pool in descending score order.
PoolByScore ==
    \A p, q \in 1..Len(highBandwidthServers) :
        p < q => F64LessEq(highBandwidthServers[q].Score,
                           highBandwidthServers[p].Score)

\* C26: the pool is walked in descending score order; a pool candidate not
\* selected before the j-th selected server, when it is ahead of that server
\* in the pool, scores higher than that server or that server is a filled
\* one, has both its provider and its place among the servers selected
\* before; a selection of fewer than 5 holds the whole pool.
C26_DiversityThenFill ==
    Launched =>
        /\ PoolByScore
        /\ PassesInPoolOrder
        /\ \A j \in 1..Len(selectedServers), p \in 1..Len(highBandwidthServers) :
              /\ ~Listed(Before(j), highBandwidthServers[p])
              /\ highBandwidthServers[p] # selectedServers[j]
              /\ \/ p < PoolPosition(selectedServers[j])
                 \/ F64Less(selectedServers[j].Score, highBandwidthServers[p].Score)
                 \/ Filled(j)
              => BothRepresented(Before(j), highBandwidthServers[p])
        /\ Len(selectedServers) < 5 =>
              \A p \in 1..Len(highBandwidthServers) :
                  Listed(selectedServers, highBandwidthServers[p])

\* C30: no two selected servers have the same host and port, also when the
\* catalog lists a host and port twice, and each selected server has one task:
\* no two tasks test the same host and port.
C30_NoServerSelectedTwice ==
    /\ \A j, k \in 1..Len(selectedServers) :
          j # k => \/ selectedServers[j].Host # selectedServers[k].Host
                   \/ selectedServers[j].Port # selectedServers[k].Port
    /\ Tasks = 1..Len(selectedServers)

\* The pool lists one host and port twice and the selection is not full.
C30_Witness ==
    /\ Launched
    /\ \E p, q \in 1..Len(highBandwidthServers) :
          /\ p < q
          /\ highBandwidthServers[p].Host = highBandwidthServers[q].Host
          /\ highBandwidthServers[p].Port = highBandwidthServers[q].Port
          /\ Listed(selectedServers, highBandwidthServers[p])
          /\ ~Listed(selectedServers, highBandwidthServers[q])
    /\ Len(selectedServers) = 4
    /\ Len(highBandwidthServers) = 5

(***************************************************************************)
(* Channel, closer and collector                                           *)
(***************************************************************************)
\* C27: in every interleaving a task that is at its send can send (the
\* channel is open and holds fewer results than there are tasks); the channel
\* is closed only when every task has sent and returned, so nothing is sent
\* on a closed channel; the collector leaves its loop only on the closed
\* channel, with one result per task; with no task the closer closes at once.
C27_ChannelNeverBlocksNorClosesEarly ==
    /\ Len(resultChan) <= Cardinality(Tasks)
    /\ \A i \in Tasks : tpc[i] = "send" => ENABLED Send(i)
    /\ \A i \in Tasks : sends[i] <= 1
    /\ closed => \A i \in Tasks : sends[i] = 1 /\ tpc[i] = "done"
    /\ Ran => closed /\ resultChan = <<>> /\ Len(results) = Cardinality(Tasks)
    /\ Launched /\ Tasks = {} /\ ~closed => ENABLED CloseChannel

\* Both tasks have sent before the collector took anything: the channel is
\* full and still open.
C27_Witness ==
    /\ Launched
    /\ Cardinality(Tasks) = 2
    /\ Len(resultChan) = 2
    /\ ~closed
    /\ \A i \in Tasks : sends[i] = 1

CallsOf(i, leg) == {k \in 1..Len(calls[i]) : calls[i][k].leg = leg}

\* C29: a task invokes iperf3 at most twice per leg and at most 4 times in
\* all; a second invocation of a leg comes right after the first invocation
\* of that leg, which has failed, and it is the degraded one.
C29_AtMostOneRetryPerLeg ==
    \A i \in Tasks :
        /\ Cardinality(CallsOf(i, "download")) <= 2
        /\ Cardinality(CallsOf(i, "upload")) <= 2
        /\ Len(calls[i]) <= 4
        /\ \A j, k \in 1..Len(calls[i]) :
              j < k /\ calls[i][j].leg = calls[i][k].leg =>
                 /\ k = j + 1
                 /\ calls[i][j].outcome = "fail"
                 /\ calls[i][j].mode = "full"
                 /\ calls[i][k].mode = "degraded"
        /\ \A k \in 1..Len(calls[i]) :
              calls[i][k].mode = "degraded" =>
                 k > 1 /\ calls[i][k - 1].leg = calls[i][k].leg

\* A task with four invocations: both legs retried.
C29_Witness ==
    \E i \in Tasks :
        /\ tpc[i] = "done"
        /\ Len(calls[i]) = 4
        /\ calls[i][1].outcome = "fail"
        /\ calls[i][3].outcome = "fail"
        /\ calls[i][4].leg = "upload"

(***************************************************************************)
(* The run under fair scheduling                                           *)
(***************************************************************************)

\* Catalogs of no entry, of one entry, of two entries, and of one entry whose
\* launch command has no host.
TerminationFeeds ==
    { <<>>,
      <<SelectionCatalog[3]>>,
      <<SelectionCatalog[3], SelectionCatalog[5]>>,
      <<[SelectionCatalog[3] EXCEPT !.IP_HOST = <<"c", ".", "i", "o">>]>> }

TerminationInit == SelectionInit /\ speedtestDownload \in SpeedtestFigures

LaunchTasks ==
    \E f \in TerminationFeeds :
        FetchWith([err |-> FALSE, json |-> TRUE, feed |-> f])

\* One step of goroutine i, whichever it is.
TaskStep(i) ==
    /\ i \in Tasks
    /\ \/ TaskBegin(i)
       \/ DownloadAttempt1(i)
       \/ DownloadAttempt2(i)
       \/ UploadAttempt1(i)
       \/ UploadAttempt2(i)
       \/ Send(i)
       \/ TaskDone(i)

TerminationNext ==
    \/ LaunchTasks
    \/ \E i \in Tasks : TaskStep(i)
    \/ CloseChannel
    \/ Receive
    \/ Finish

\* The scheduler runs every goroutine that can take a step: each task, the
\* closer and the collector; an invocation of iperf3 that has been started
\* returns.
Fairness ==
    /\ \A i \in 1..MaxServers : WF_vars(TaskStep(i))
    /\ WF_vars(CloseChannel)
    /\ WF_vars(Receive)
    /\ WF_vars(Finish)

TerminationSpec == TerminationInit /\ [][TerminationNext]_vars /\ Fairness

\* C28: under fair scheduling, with every invocation returning, every
\* launched task eventually sends its result and the run eventually ends
\* with the ranked list stored, one row per task; a task that has not
\* returned can always take its next step, whatever the other tasks do.
C28_EveryTaskSendsAndRunTerminates ==
    /\ Launched ~> (/\ Ran
                    /\ Len(NetblastResults) = Cardinality(Tasks)
                    /\ \A k \in 1..Len(NetblastResults) :
                          NetblastResults[k].Rank = k)
    /\ \A i \in 1..MaxServers :
          (Launched /\ i \in Tasks) ~> (i \in Tasks /\ sends[i] = 1)
    /\ [](\A i \in Tasks : tpc[i] # "done" => ENABLED TaskStep(i))

\* Two tasks, one of them retried on both legs, and the run has ended.
C28_Witness ==
    /\ Ran
    /\ Cardinality(Tasks) = 2
    /\ Len(NetblastResults) = 2
    /\ \E i \in Tasks : Len(calls[i]) = 4

====
